---- MODULE Spec2Model ----
(***************************************************************************)
(* melee-tools: event extraction from per-frame replay telemetry.          *)
(*                                                                         *)
(* This module models src/src/melee_tools/combos.py (detect_combos): the   *)
(* scan over the defender's frame table that groups percent increases into *)
(* combos, closes them by the gap rule or by a stock loss, and marks the   *)
(* last closed combo killed retroactively.                                 *)
(*                                                                         *)
(* It also models detect_combos_by_strictness (combos.py),                  *)
(* analyze_knockdowns (habits.py), classify_direction (iteration.py),      *)
(* find_edgeguards and find_confirmed_events (clips.py),                   *)
(* find_neutral_openings (neutral.py), detect_wavedashes (techniques.py),  *)
(* and find_kills, find_state_entries, find_state_exits and                *)
(* next_action_after (query.py), each on the tables                        *)
(* of one match and each under a specification of its own; the variables   *)
(* of the other functions stay at their rest values meanwhile.             *)
(*                                                                         *)
(* Numbers.  A percent is a fixed-point number in hundredths (1206 is      *)
(* 12.06%).  round(x, 1) yields tenths (121 is 12.1), so the fields        *)
(* start_pct, end_pct and damage of a combo are in tenths.  A missing      *)
(* value (NaN) of percent, stocks or last_attack_landed is NaN.            *)
(***************************************************************************)
EXTENDS Integers, Sequences, FiniteSets, TLC

VARIABLES
    attacker_df,     \* input: attacker rows [frame, last_attack_landed]
    defender_df,     \* input: defender rows [frame, percent, stocks]
    gap_frames,      \* input: the gap tolerance
    pc,              \* "loop": at the head of the for loop; "done": returned
    i,               \* the loop index of `for i in range(1, len(pct))`
    combos,          \* the list of combos built so far (the result when done)
    in_combo,
    start_frame,
    start_pct,
    last_hit_frame,
    num_hits,
    started_by,
    ended_by,
    current_pct,
    hit_sequence,
    strictness,      \* input of detect_combos_by_strictness
    run,             \* the number of the call on these inputs: 1 or 2
    first_combos     \* the result of the first call, <<>> before it returns

\* analyze_knockdowns, one match
VARIABLES
    my_df,           \* input: the player's rows [frame, state, airborne,
                     \*        percent, position_x, direction]
    opp_df,          \* input: the opponent's rows [frame, position_x]
    rows,            \* the events appended so far (the result when done)
    phase,           \* "tech": in the loop over the tech entries; "missed":
                     \* in the loop over the bounce entries; "done"; "off"
    pos              \* the row of the entry handled last, -1 before the first

\* one call of classify_direction
VARIABLES
    args,            \* the arguments [my_x, opp_x, facing, is_forward]
    returned         \* the label returned, "" before the call returns

\* find_edgeguards
VARIABLES
    games,           \* input: the matches [filepath, stage_id, opp_df], the
                     \*        opponent's rows [frame, percent, stocks,
                     \*        position_x, position_y]
    game,            \* the number of matches the outer loop has taken up
    eg_pc,           \* "games": at the head of the outer loop; "scan": at the
                     \* head of the loop over the rows; "done"; "off"
    eg_i,            \* the loop index of `for i in range(1, len(opp_pct))`
    edgeguards,      \* the groups closed so far in this match
    current_eg,      \* the open group, NoGroup without one
    eg_rows          \* the clip rows appended so far (the result when done)

\* find_neutral_openings, one match
VARIABLES
    nt_my_df,        \* input: the player's rows [frame, state, percent,
                     \*        position_x, last_attack_landed]
    nt_opp_df,       \* input: the opponent's rows, the same columns
    min_neutral_frames,  \* input
    nt_pc,           \* "loop": in the loop over frame_set; "done"; "off"
    nt_k,            \* the number of frames of frame_set handled so far
    neutral_start_frame,
    neutral_start_my_pct,
    neutral_start_opp_pct,
    neutral_start_my_x,
    nt_rows          \* the rows appended so far (the result when done)

\* find_confirmed_events, one match
VARIABLES
    ce_actor_df,     \* input: the actor's rows [frame, state,
                     \*        last_attack_landed]
    ce_reactor_df,   \* input: the reactor's rows [frame, percent, stocks]
    trigger_type,    \* "move" or "state", as resolved from the trigger
    ce_outcome,      \* input: None, "kill" or a move alias
    window_frames,   \* input
    min_opp_pct,     \* input: a percent, NoMinPct for None
    ce_pc,           \* "triggers", "outcomes", "done"; "off"
    trigger_events,  \* the list of (index, trigger_frame) of the match
    ce_t,            \* the number of trigger events handled so far
    ce_rows          \* the clip rows appended so far (the result when done)

\* one call of a function of query.py
VARIABLES
    q_df,            \* input: the player's rows [frame, state, stocks,
                     \*        percent, last_attack_landed]
    q_attacker_df,   \* input of find_kills: the attacker's rows [frame,
                     \*        last_attack_landed]
    q_attacker_given,    \* input of find_kills: attacker_df is not None
    q_states,        \* input: the set of states looked for
    q_trigger_indices,   \* input of next_action_after: the trigger rows
    q_window_frames, \* input of next_action_after
    q_pc,            \* "call": before the call; "loop": in its loop;
                     \* "done"; "off"
    q_k,             \* the number of iterations of the loop so far
    q_entries,       \* the rows find_state_entries returned
    q_exits,         \* the rows find_state_exits returned
    q_rows           \* the rows appended so far (the result when done)

\* detect_wavedashes, one match, opp_df not given
VARIABLES
    wd_df,           \* input: the player's rows [frame, state, direction,
                     \*        position_x, velocity_self_x_ground]
    wd_i,            \* the index of the main scan, `i`
    wd_pc,           \* "scan": at the head of the while loop; "done"; "off"
    wd_rows          \* the wavedashes appended so far (the result when done)

combosVars == <<attacker_df, defender_df, gap_frames, pc, i, combos, in_combo,
                start_frame, start_pct, last_hit_frame, num_hits, started_by,
                ended_by, current_pct, hit_sequence, strictness, run,
                first_combos>>

knockdownsVars == <<my_df, opp_df, rows, phase, pos>>

directionVars == <<args, returned>>

edgeguardsVars ==
    <<games, game, eg_pc, eg_i, edgeguards, current_eg, eg_rows>>

neutralVars ==
    <<nt_my_df, nt_opp_df, min_neutral_frames, nt_pc, nt_k,
      neutral_start_frame, neutral_start_my_pct, neutral_start_opp_pct,
      neutral_start_my_x, nt_rows>>

confirmedVars == <<ce_actor_df, ce_reactor_df, trigger_type, ce_outcome,
                   window_frames, min_opp_pct, ce_pc, trigger_events, ce_t,
                   ce_rows>>

queryVars == <<q_df, q_attacker_df, q_attacker_given, q_states,
               q_trigger_indices, q_window_frames, q_pc, q_k, q_entries,
               q_exits, q_rows>>

wavedashVars == <<wd_df, wd_i, wd_pc, wd_rows>>

vars == <<combosVars, knockdownsVars, directionVars, edgeguardsVars,
          neutralVars, confirmedVars, queryVars, wavedashVars>>

\* `current_eg is None`
NoGroup == <<>>

\* detect_combos is called directly, and for the first time.
PlainCall ==
    /\ strictness = 1
    /\ run = 1
    /\ first_combos = <<>>

\* The variables of a function that is not running.
CombosUnused ==
    /\ attacker_df = <<>>
    /\ defender_df = <<>>
    /\ gap_frames = 0
    /\ pc = "off"
    /\ i = 0
    /\ combos = <<>>
    /\ in_combo = FALSE
    /\ start_frame = 0
    /\ start_pct = 0
    /\ last_hit_frame = 0
    /\ num_hits = 0
    /\ started_by = 0
    /\ ended_by = 0
    /\ current_pct = 0
    /\ hit_sequence = <<>>
    /\ PlainCall

EdgeguardsUnused ==
    /\ games = <<>>
    /\ game = 0
    /\ eg_pc = "off"
    /\ eg_i = 0
    /\ edgeguards = <<>>
    /\ current_eg = NoGroup
    /\ eg_rows = <<>>

NeutralUnused ==
    /\ nt_my_df = <<>>
    /\ nt_opp_df = <<>>
    /\ min_neutral_frames = 0
    /\ nt_pc = "off"
    /\ nt_k = 0
    /\ neutral_start_frame = -1
    /\ neutral_start_my_pct = 0
    /\ neutral_start_opp_pct = 0
    /\ neutral_start_my_x = 0
    /\ nt_rows = <<>>

KnockdownsUnused ==
    /\ my_df = <<>>
    /\ opp_df = <<>>
    /\ rows = <<>>
    /\ phase = "off"
    /\ pos = -1

DirectionUnused ==
    /\ args = <<>>
    /\ returned = ""

ConfirmedUnused ==
    /\ ce_actor_df = <<>>
    /\ ce_reactor_df = <<>>
    /\ trigger_type = ""
    /\ ce_outcome = ""
    /\ window_frames = 0
    /\ min_opp_pct = 0
    /\ ce_pc = "off"
    /\ trigger_events = <<>>
    /\ ce_t = 0
    /\ ce_rows = <<>>

QueryUnused ==
    /\ q_df = <<>>
    /\ q_attacker_df = <<>>
    /\ q_attacker_given = FALSE
    /\ q_states = {}
    /\ q_trigger_indices = <<>>
    /\ q_window_frames = 0
    /\ q_pc = "off"
    /\ q_k = 0
    /\ q_entries = <<>>
    /\ q_exits = <<>>
    /\ q_rows = <<>>

WavedashUnused ==
    /\ wd_df = <<>>
    /\ wd_i = 1
    /\ wd_pc = "off"
    /\ wd_rows = <<>>

\* What a run of detect_combos leaves alone.
OnlyCombos ==
    EdgeguardsUnused /\ NeutralUnused /\ KnockdownsUnused /\
    DirectionUnused /\ ConfirmedUnused /\ QueryUnused /\ WavedashUnused

otherThanCombos ==
    <<knockdownsVars, directionVars, edgeguardsVars, neutralVars,
      confirmedVars, queryVars, wavedashVars>>

\* What a run of analyze_knockdowns leaves alone.
OnlyKnockdowns ==
    CombosUnused /\ EdgeguardsUnused /\ NeutralUnused /\ DirectionUnused /\
    ConfirmedUnused /\ QueryUnused /\ WavedashUnused

otherThanKnockdowns ==
    <<combosVars, directionVars, edgeguardsVars, neutralVars, confirmedVars,
      queryVars, wavedashVars>>

\* What a call of classify_direction leaves alone.
OnlyDirection ==
    CombosUnused /\ EdgeguardsUnused /\ NeutralUnused /\ KnockdownsUnused /\
    ConfirmedUnused /\ QueryUnused /\ WavedashUnused

otherThanDirection ==
    <<combosVars, knockdownsVars, edgeguardsVars, neutralVars, confirmedVars,
      queryVars, wavedashVars>>

\* What a run of find_edgeguards leaves alone.
OnlyEdgeguards ==
    CombosUnused /\ NeutralUnused /\ KnockdownsUnused /\ DirectionUnused /\
    ConfirmedUnused /\ QueryUnused /\ WavedashUnused

otherThanEdgeguards ==
    <<combosVars, knockdownsVars, directionVars, neutralVars, confirmedVars,
      queryVars, wavedashVars>>

\* What a run of find_neutral_openings leaves alone.
OnlyNeutral ==
    CombosUnused /\ EdgeguardsUnused /\ KnockdownsUnused /\ DirectionUnused /\
    ConfirmedUnused /\ QueryUnused /\ WavedashUnused

otherThanNeutral ==
    <<combosVars, knockdownsVars, directionVars, edgeguardsVars,
      confirmedVars, queryVars, wavedashVars>>

\* What a run of find_confirmed_events leaves alone.
OnlyConfirmed ==
    CombosUnused /\ EdgeguardsUnused /\ NeutralUnused /\ KnockdownsUnused /\
    DirectionUnused /\ QueryUnused /\ WavedashUnused

otherThanConfirmed ==
    <<combosVars, knockdownsVars, directionVars, edgeguardsVars, neutralVars,
      queryVars, wavedashVars>>

\* What a call of a function of query.py leaves alone.
OnlyQuery ==
    CombosUnused /\ EdgeguardsUnused /\ NeutralUnused /\ KnockdownsUnused /\
    DirectionUnused /\ ConfirmedUnused /\ WavedashUnused

otherThanQuery ==
    <<combosVars, knockdownsVars, directionVars, edgeguardsVars, neutralVars,
      confirmedVars, wavedashVars>>

\* What a run of detect_wavedashes leaves alone.
OnlyWavedash ==
    CombosUnused /\ EdgeguardsUnused /\ NeutralUnused /\ KnockdownsUnused /\
    DirectionUnused /\ ConfirmedUnused /\ QueryUnused

otherThanWavedash ==
    <<combosVars, knockdownsVars, directionVars, edgeguardsVars, neutralVars,
      confirmedVars, queryVars>>

---------------------------------------------------------------------------
(* Bounds of the model *)

\* Longest defender timeline (rows) of the exhaustive inputs.
MaxLen == 4

\* Stocks the defender starts the timeline with.
StartStocks == 2

---------------------------------------------------------------------------
(* Program constants *)

NaN == -1

KILL_WINDOW == 150

STRICTNESS_PRESETS == (0 :> 0) @@ (1 :> 45) @@ (2 :> 90) @@ (3 :> 180)

MOVE_NAMES ==
    (1 :> "Misc") @@ (2 :> "Jab") @@ (3 :> "Jab 2") @@ (4 :> "Jab 3") @@
    (5 :> "Rapid Jabs") @@ (6 :> "Dash Attack") @@ (7 :> "F-tilt") @@
    (8 :> "U-tilt") @@ (9 :> "D-tilt") @@ (10 :> "F-smash") @@
    (11 :> "U-smash") @@ (12 :> "D-smash") @@ (13 :> "Nair") @@
    (14 :> "Fair") @@ (15 :> "Bair") @@ (16 :> "Uair") @@ (17 :> "Dair") @@
    (18 :> "Neutral B") @@ (19 :> "Side B") @@ (20 :> "Up B") @@
    (21 :> "Down B") @@ (50 :> "Getup Attack") @@
    (51 :> "Getup Attack (Slow)") @@ (52 :> "Pummel") @@ (53 :> "F-throw") @@
    (54 :> "B-throw") @@ (55 :> "U-throw") @@ (56 :> "D-throw") @@
    (61 :> "Edge Attack (Slow)") @@ (62 :> "Edge Attack")

\* MOVE_NAMES.get(move_id, f"Unknown ({move_id})")
move_name(move_id) ==
    IF move_id \in DOMAIN MOVE_NAMES THEN MOVE_NAMES[move_id]
    ELSE "Unknown (" \o ToString(move_id) \o ")"

---------------------------------------------------------------------------
(* Pure helpers *)

isnan(x) == x = NaN

\* round(x, 1) of a percent in hundredths, in tenths; a tie goes to the even
\* neighbour, as Python's round does.
Round1(x) ==
    LET q == x \div 10
        r == x % 10
    IN  IF r < 5 THEN q
        ELSE IF r > 5 THEN q + 1
        ELSE IF q % 2 = 0 THEN q ELSE q + 1

\* The columns of defender_df, with the indices of the code (from 0).
pct(k) == defender_df[k + 1].percent
stocks(k) == defender_df[k + 1].stocks
frames(k) == defender_df[k + 1].frame

\* dict(zip(atk_frames, atk_lal)): the last row of a frame wins.
atk_lal_map ==
    LET fs == {attacker_df[k].frame : k \in 1..Len(attacker_df)}
        last(f) == CHOOSE k \in 1..Len(attacker_df) :
                      /\ attacker_df[k].frame = f
                      /\ \A m \in 1..Len(attacker_df) :
                            attacker_df[m].frame = f => m <= k
    IN  [f \in fs |-> attacker_df[last(f)].last_attack_landed]

\* Faulty variant of Damage: the difference is taken first and rounded once.
Damage_RoundDifference(sp, ep) == Round1(ep - sp)

\* round(round(ep, 1) - round(sp, 1), 1): the difference of two numbers of
\* one decimal (in tenths), rounded to one decimal again.
Damage(sp, ep) == Round1((Round1(ep) - Round1(sp)) * 10)

make_combo(sf, ef, sp, ep, nh, sb, eb, killed, hit_seq) ==
    [start_frame |-> sf,
     end_frame   |-> ef,
     damage      |-> Damage(sp, ep),
     num_hits    |-> nh,
     started_by  |-> move_name(sb),
     ended_by    |-> move_name(eb),
     killed      |-> killed,
     start_pct   |-> Round1(sp),
     end_pct     |-> Round1(ep),
     hit_moves   |-> [k \in 1..Len(hit_seq) |-> move_name(hit_seq[k][2])],
     hit_frames  |-> [k \in 1..Len(hit_seq) |-> hit_seq[k][1]]]

---------------------------------------------------------------------------
(* detect_combos: the locals, one iteration of the loop, the code after it *)

Locals0 ==
    [combos |-> <<>>, in_combo |-> FALSE, start_frame |-> 0, start_pct |-> 0,
     last_hit_frame |-> 0, num_hits |-> 0, started_by |-> 0, ended_by |-> 0,
     current_pct |-> 0, hit_sequence |-> <<>>]

\* Faulty variant of MoveId: when the attacker has no row at the frame, the
\* move of its nearest earlier row is taken.
MoveId_Nearest(k) ==
    LET earlier == {f \in DOMAIN atk_lal_map : f <= frames(k)}
        f == CHOOSE g \in earlier : \A h \in earlier : h <= g
    IN  IF earlier # {} /\ ~isnan(atk_lal_map[f]) THEN atk_lal_map[f] ELSE 0

\* The move of the hit on row k: the attacker's last_attack_landed at the
\* defender's frame, 0 when the attacker has no row there or the value is
\* missing.
MoveId(k) ==
    IF frames(k) \in DOMAIN atk_lal_map /\ ~isnan(atk_lal_map[frames(k)])
    THEN atk_lal_map[frames(k)] ELSE 0

\* Faulty variant of OnHit: a further hit of an open combo is not counted.
OnHit_NotCounted(s, k) ==
    LET move_id == MoveId(k)
        opened ==
            IF ~s.in_combo
            THEN [s EXCEPT !.in_combo = TRUE,
                           !.start_frame = frames(k),
                           !.start_pct = pct(k - 1),
                           !.started_by = move_id,
                           !.num_hits = 1,
                           !.hit_sequence = <<<<frames(k), move_id>>>>]
            ELSE [s EXCEPT !.hit_sequence = Append(@, <<frames(k), move_id>>)]
    IN  [opened EXCEPT !.ended_by = move_id,
                       !.last_hit_frame = frames(k),
                       !.current_pct = pct(k)]

\* Faulty variant of OnHit: a combo starts at the frame of the row before its
\* first hit.
OnHit_StartsOneRowEarly(s, k) ==
    LET move_id == MoveId(k)
        opened ==
            IF ~s.in_combo
            THEN [s EXCEPT !.in_combo = TRUE,
                           !.start_frame = frames(k - 1),
                           !.start_pct = pct(k - 1),
                           !.started_by = move_id,
                           !.num_hits = 1,
                           !.hit_sequence = <<<<frames(k), move_id>>>>]
            ELSE [s EXCEPT !.num_hits = @ + 1,
                           !.hit_sequence = Append(@, <<frames(k), move_id>>)]
    IN  [opened EXCEPT !.ended_by = move_id,
                       !.last_hit_frame = frames(k),
                       !.current_pct = pct(k)]

\* `if hit:` (lines 102-117)
OnHit(s, k) ==
    LET move_id == MoveId(k)
        opened ==
            IF ~s.in_combo
            THEN [s EXCEPT !.in_combo = TRUE,
                           !.start_frame = frames(k),
                           !.start_pct = pct(k - 1),
                           !.started_by = move_id,
                           !.num_hits = 1,
                           !.hit_sequence = <<<<frames(k), move_id>>>>]
            ELSE [s EXCEPT !.num_hits = @ + 1,
                           !.hit_sequence = Append(@, <<frames(k), move_id>>)]
    IN  [opened EXCEPT !.ended_by = move_id,
                       !.last_hit_frame = frames(k),
                       !.current_pct = pct(k)]

\* Faulty variant of CloseKilled: the combo ends at its last hit, as in the gap
\* rule.
CloseKilled_AtLastHit(s, k) ==
    [s EXCEPT !.combos = Append(@, make_combo(s.start_frame, s.last_hit_frame,
                  s.start_pct, s.current_pct, s.num_hits, s.started_by,
                  s.ended_by, TRUE, s.hit_sequence)),
              !.in_combo = FALSE]

\* `if in_combo and stock_lost:` (lines 119-126)
CloseKilled(s, k) ==
    [s EXCEPT !.combos = Append(@, make_combo(s.start_frame, frames(k),
                  s.start_pct, s.current_pct, s.num_hits, s.started_by,
                  s.ended_by, TRUE, s.hit_sequence)),
              !.in_combo = FALSE]

\* Faulty variant of RetroKill: the combo is marked killed, its end is not moved.
RetroKill_EndNotMoved(s, k) ==
    LET n == Len(s.combos)
        last == s.combos[n]
    IN  IF ~last.killed /\ (frames(k) - last.end_frame) <= KILL_WINDOW
        THEN [s EXCEPT !.combos[n].killed = TRUE]
        ELSE s

\* `if not in_combo and stock_lost and combos:` (lines 128-134)
RetroKill(s, k) ==
    LET n == Len(s.combos)
        last == s.combos[n]
    IN  IF ~last.killed /\ (frames(k) - last.end_frame) <= KILL_WINDOW
        THEN [s EXCEPT !.combos[n].killed = TRUE,
                       !.combos[n].end_frame = frames(k)]
        ELSE s

\* Faulty variant of CloseOpen: start and end frame change places.
CloseOpen_FramesSwapped(s) ==
    [s EXCEPT !.combos = Append(@, make_combo(s.last_hit_frame, s.start_frame,
                  s.start_pct, s.current_pct, s.num_hits, s.started_by,
                  s.ended_by, FALSE, s.hit_sequence)),
              !.in_combo = FALSE]

\* The append of lines 137-141 and of lines 144-148.
CloseOpen(s) ==
    [s EXCEPT !.combos = Append(@, make_combo(s.start_frame, s.last_hit_frame,
                  s.start_pct, s.current_pct, s.num_hits, s.started_by,
                  s.ended_by, FALSE, s.hit_sequence)),
              !.in_combo = FALSE]

\* Faulty variant of GapExceeded: a frame at exactly gap frames of the last hit
\* closes the combo.
GapExceeded_AtGap(s, k, gap) == (frames(k) - s.last_hit_frame) >= gap

\* Faulty variant of GapExceeded: the comparison is turned around.
GapExceeded_Within(s, k, gap) == (frames(k) - s.last_hit_frame) <= gap

\* The condition of line 136, after the hit has been taken in.
GapExceeded(s, k, gap) == (frames(k) - s.last_hit_frame) > gap

\* Faulty variant of LoopBody: a row without a percent ends the open combo.
LoopBody_MissingCloses(s, k, gap) ==
    IF isnan(pct(k)) \/ isnan(pct(k - 1))
    THEN IF s.in_combo THEN CloseOpen(s) ELSE s
    ELSE
        LET dmg == pct(k) - pct(k - 1)
            hit == dmg > 0
            stock_lost == /\ ~isnan(stocks(k))
                          /\ ~isnan(stocks(k - 1))
                          /\ stocks(k) < stocks(k - 1)
            s1 == IF hit THEN OnHit(s, k) ELSE s
        IN  IF s1.in_combo /\ stock_lost THEN CloseKilled(s1, k)
            ELSE IF ~s1.in_combo /\ stock_lost /\ s1.combos # <<>>
                 THEN RetroKill(s1, k)
            ELSE IF s1.in_combo /\ ~hit /\ GapExceeded(s1, k, gap)
                 THEN CloseOpen(s1)
            ELSE s1

\* One iteration of the loop (lines 94-141) on locals s, row k.
LoopBody(s, k, gap) ==
    IF isnan(pct(k)) \/ isnan(pct(k - 1)) THEN s
    ELSE
        LET dmg == pct(k) - pct(k - 1)
            hit == dmg > 0
            stock_lost == /\ ~isnan(stocks(k))
                          /\ ~isnan(stocks(k - 1))
                          /\ stocks(k) < stocks(k - 1)
            s1 == IF hit THEN OnHit(s, k) ELSE s
        IN  IF s1.in_combo /\ stock_lost THEN CloseKilled(s1, k)
            ELSE IF ~s1.in_combo /\ stock_lost /\ s1.combos # <<>>
                 THEN RetroKill(s1, k)
            ELSE IF s1.in_combo /\ ~hit /\ GapExceeded(s1, k, gap)
                 THEN CloseOpen(s1)
            ELSE s1

\* Faulty variant of AfterLoop: a combo open at the end of the data is dropped.
AfterLoop_Dropped(s) == s

\* `if in_combo:` after the loop (lines 144-148)
AfterLoop(s) == IF s.in_combo THEN CloseOpen(s) ELSE s

\* The locals after the iterations 1..k.
RECURSIVE Scan(_, _)
Scan(k, gap) == IF k = 0 THEN Locals0 ELSE LoopBody(Scan(k - 1, gap), k, gap)

\* detect_combos(attacker_df, defender_df, gap): the rows of the result.
detect_combos(gap) ==
    AfterLoop(Scan(IF Len(defender_df) = 0 THEN 0 ELSE Len(defender_df) - 1,
                   gap)).combos

---------------------------------------------------------------------------
(* The inputs *)

\* Frame numbers increase strictly and may skip values.
FrameSteps == {1, 61}

\* The damage of one hit, 12.06%.
HitDamages == {1206}

\* What one frame can do to the defender: nothing, a hit, a death (the
\* percent starts over), a hit on the frame the stock is lost.
FrameEvents == {"idle", "hit", "death", "killing hit"}

\* The row that follows row r after d frames when event e happens.
NextRow(r, d, e, h) ==
    [frame   |-> r.frame + d,
     percent |-> CASE e = "idle" -> r.percent
                   [] e = "death" -> 0
                   [] OTHER -> r.percent + h,
     stocks  |-> IF e \in {"death", "killing hit"} THEN r.stocks - 1
                 ELSE r.stocks]

FirstRow == [frame |-> 100, percent |-> 0, stocks |-> StartStocks]

\* The complete timeline of the events ev (one per row after the first).
RECURSIVE CompleteTimeline(_)
CompleteTimeline(ev) ==
    IF Len(ev) = 0 THEN <<FirstRow>>
    ELSE LET t == CompleteTimeline(SubSeq(ev, 1, Len(ev) - 1))
             e == ev[Len(ev)]
         IN  Append(t, NextRow(t[Len(t)], e.step, e.kind, e.damage))

\* Stocks never go below zero.
WellFormed(t) == \A k \in 1..Len(t) : t[k].stocks >= 0

\* A timeline with the cells of `cells` missing.
Masked(t, cells) ==
    [k \in 1..Len(t) |->
        [frame   |-> t[k].frame,
         percent |-> IF <<k, "percent">> \in cells THEN NaN ELSE t[k].percent,
         stocks  |-> IF <<k, "stocks">> \in cells THEN NaN ELSE t[k].stocks]]

\* The missing data of one timeline of n rows: nothing, one cell, or both
\* cells of one row (a frame the replay holds no data for).
MissingCells(n) ==
    {{}} \cup {{c} : c \in (1..n) \X {"percent", "stocks"}}
         \cup {{<<k, "percent">>, <<k, "stocks">>} : k \in 1..n}

\* df is one of the exhaustive defender timelines: every sequence of at most
\* MaxLen rows of frame events, with its missing data.
IsDefenderTimeline(df) ==
    \E n \in 1..MaxLen :
      \E ev \in [1..(n - 1) -> [step : FrameSteps, kind : FrameEvents,
                                damage : HitDamages]] :
        LET t == CompleteTimeline(ev)
        IN  /\ WellFormed(t)
            /\ \E m \in MissingCells(n) : df = Masked(t, m)

\* The attacker's rows for an exhaustive defender timeline: a row on every
\* frame of the defender, the move landed last alternating.
AttackerTimelines(def) ==
    {[k \in 1..Len(def) |->
         [frame |-> def[k].frame,
          last_attack_landed |-> IF k % 2 = 0 THEN 14 ELSE 10]]}

\* Tables from their columns.
DefenderTable(fs, ps, ss) ==
    [k \in 1..Len(fs) |-> [frame |-> fs[k], percent |-> ps[k], stocks |-> ss[k]]]

AttackerTable(fs, ms) ==
    [k \in 1..Len(fs) |-> [frame |-> fs[k], last_attack_landed |-> ms[k]]]

\* Percent [0,0,12,12,12,30,30] at frames [100,101,105,110,140,141,300],
\* Fair (14) landed at 105 and F-smash (10) at 141.
GapScenario ==
    [defender |-> DefenderTable(<<100, 101, 105, 110, 140, 141, 300>>,
                                <<0, 0, 1200, 1200, 1200, 3000, 3000>>,
                                <<4, 4, 4, 4, 4, 4, 4>>),
     attacker |-> AttackerTable(<<100, 101, 105, 110, 140, 141, 300>>,
                                <<0, 0, 14, 14, 14, 10, 10>>)]

\* The same with the stock lost at frame 200.
KillScenario ==
    [defender |-> DefenderTable(<<100, 101, 105, 110, 140, 141, 200, 300>>,
                                <<0, 0, 1200, 1200, 1200, 3000, 0, 0>>,
                                <<4, 4, 4, 4, 4, 4, 3, 3>>),
     attacker |-> AttackerTable(<<100, 101, 105, 110, 140, 141, 200, 300>>,
                                <<0, 0, 14, 14, 14, 10, 10, 10>>)]

\* A hit, a long pause, the stock lost 62 frames after the hit, and a hit on
\* the next stock.
RetroScenario ==
    [defender |-> DefenderTable(<<100, 101, 162, 163, 164>>,
                                <<0, 1206, 1206, 0, 1206>>,
                                <<2, 2, 2, 1, 1>>),
     attacker |-> AttackerTable(<<100, 101, 162, 163, 164>>,
                                <<0, 14, 14, 14, 10>>)]

\* The replay holds no data for frame 164, on which the defender dies at
\* 42.24%; the next stock is hit at frame 166.
MissingDeathScenario ==
    [defender |-> DefenderTable(<<100, 101, 162, 163, 164, 165, 166>>,
                                <<0, 3018, 3018, 4224, NaN, 0, 1206>>,
                                <<4, 4, 4, 4, NaN, 3, 3>>),
     attacker |-> AttackerTable(<<100, 101, 162, 163, 165, 166>>,
                                <<0, 10, 10, 14, 14, NaN>>)]

\* Two hits 46 frames apart with a frame in between at distance 45 of the
\* first, a frame at distance 46 of the second, and the stock lost exactly
\* 150 frames after the second hit.
BoundaryScenario ==
    [defender |-> DefenderTable(<<100, 101, 146, 147, 193, 297>>,
                                <<0, 1206, 1206, 2412, 2412, 0>>,
                                <<4, 4, 4, 4, 4, 3>>),
     attacker |-> AttackerTable(<<100, 101, 146, 147, 193, 297>>,
                                <<0, 14, 14, 10, 10, 10>>)]

\* The same with the stock lost 151 frames after the second hit.
LateDeathScenario ==
    [defender |-> DefenderTable(<<100, 101, 146, 147, 193, 298>>,
                                <<0, 1206, 1206, 2412, 2412, 0>>,
                                <<4, 4, 4, 4, 4, 3>>),
     attacker |-> AttackerTable(<<100, 101, 146, 147, 193, 298>>,
                                <<0, 14, 14, 10, 10, 10>>)]

Scenarios ==
    {GapScenario, KillScenario, RetroScenario, MissingDeathScenario,
     BoundaryScenario, LateDeathScenario}

\* The move the attacker landed last at the time of row k of the inputs of
\* the move attribution: neighbouring rows differ, and 63 has no name.
LandedMove(k) == <<14, 10, 63, 17, 13, 15>>[((k - 1) % 6) + 1]

\* What the attacker's table holds for a frame of the defender: a row with a
\* move, a row with a null last_attack_landed, or no row.
AttackerCells == {"move", "null", "absent"}

\* The attacker's table chosen by c, one cell per row of the defender.
AttackerRows(def, c) ==
    LET kept == SelectSeq([k \in 1..Len(def) |-> k],
                          LAMBDA k : c[k] # "absent")
    IN  [j \in 1..Len(kept) |->
            [frame |-> def[kept[j]].frame,
             last_attack_landed |->
                 IF c[kept[j]] = "null" THEN NaN ELSE LandedMove(kept[j])]]

\* The move the defender itself landed last (Jab), a column of its table
\* that detect_combos does not read.
DefenderOwnMove == 2

\* df is a defender timeline of idle frames and hits, every row carrying the
\* defender's own last_attack_landed.
IsHitTimeline(df) ==
    \E n \in 2..MaxLen :
      \E ev \in [1..(n - 1) -> [step : FrameSteps, kind : {"idle", "hit"},
                                damage : HitDamages]] :
        LET t == CompleteTimeline(ev)
        IN  df = [k \in 1..n |->
                    [frame |-> t[k].frame, percent |-> t[k].percent,
                     stocks |-> t[k].stocks,
                     last_attack_landed |-> DefenderOwnMove]]

---------------------------------------------------------------------------
(* The state machine *)

Init ==
    /\ \/ /\ IsDefenderTimeline(defender_df)
          /\ attacker_df \in AttackerTimelines(defender_df)
       \/ \E sc \in Scenarios :
             /\ defender_df = sc.defender
             /\ attacker_df = sc.attacker
    /\ gap_frames \in {STRICTNESS_PRESETS[s] : s \in DOMAIN STRICTNESS_PRESETS}
    /\ pc = "loop"
    /\ i = 1
    /\ PlainCall
    /\ OnlyCombos
    /\ combos = Locals0.combos
    /\ in_combo = Locals0.in_combo
    /\ start_frame = Locals0.start_frame
    /\ start_pct = Locals0.start_pct
    /\ last_hit_frame = Locals0.last_hit_frame
    /\ num_hits = Locals0.num_hits
    /\ started_by = Locals0.started_by
    /\ ended_by = Locals0.ended_by
    /\ current_pct = Locals0.current_pct
    /\ hit_sequence = Locals0.hit_sequence

Locals ==
    [combos |-> combos, in_combo |-> in_combo, start_frame |-> start_frame,
     start_pct |-> start_pct, last_hit_frame |-> last_hit_frame,
     num_hits |-> num_hits, started_by |-> started_by, ended_by |-> ended_by,
     current_pct |-> current_pct, hit_sequence |-> hit_sequence]

SetLocals(s) ==
    /\ combos' = s.combos
    /\ in_combo' = s.in_combo
    /\ start_frame' = s.start_frame
    /\ start_pct' = s.start_pct
    /\ last_hit_frame' = s.last_hit_frame
    /\ num_hits' = s.num_hits
    /\ started_by' = s.started_by
    /\ ended_by' = s.ended_by
    /\ current_pct' = s.current_pct
    /\ hit_sequence' = s.hit_sequence

\* One iteration of `for i in range(1, len(pct))`.
Iterate ==
    /\ pc = "loop"
    /\ i < Len(defender_df)
    /\ SetLocals(LoopBody(Locals, i, gap_frames))
    /\ i' = i + 1
    /\ UNCHANGED <<attacker_df, defender_df, gap_frames, pc, strictness, run,
                   first_combos, otherThanCombos>>

\* The loop is exhausted: close an open combo and return.
Return ==
    /\ pc = "loop"
    /\ i >= Len(defender_df)
    /\ SetLocals(AfterLoop(Locals))
    /\ pc' = "done"
    /\ UNCHANGED <<attacker_df, defender_df, gap_frames, i, strictness, run,
                   first_combos, otherThanCombos>>

Next == Iterate \/ Return

Spec == Init /\ [][Next]_vars

\* A frame of df holds both values or, where the replay has no data for
\* it, neither.
WholeRows(df) ==
    \A k \in 1..Len(df) : isnan(df[k].percent) <=> isnan(df[k].stocks)

\* Faulty variant of CallAgain: the list of combos is state kept between the
\* calls, the second call appends to it.
CallAgain_KeepsCombos ==
    /\ pc = "done"
    /\ run = 1
    /\ first_combos' = combos
    /\ SetLocals([Locals0 EXCEPT !.combos = combos])
    /\ i' = 1
    /\ pc' = "loop"
    /\ run' = 2
    /\ UNCHANGED <<attacker_df, defender_df, gap_frames, strictness,
                   otherThanCombos>>

\* The caller keeps the table the first call returned and calls
\* detect_combos again with the same arguments: the locals are created anew
\* (lines 78-88), `pd.DataFrame(combos)` of the first call (line 150) holds
\* copies of the values of its rows.
CallAgain ==
    /\ pc = "done"
    /\ run = 1
    /\ first_combos' = combos
    /\ SetLocals(Locals0)
    /\ i' = 1
    /\ pc' = "loop"
    /\ run' = 2
    /\ UNCHANGED <<attacker_df, defender_df, gap_frames, strictness,
                   otherThanCombos>>

NextTwice == Iterate \/ Return \/ CallAgain

\* The first call, on the inputs of Spec whose frames are whole.
InitTwice == Init /\ WholeRows(defender_df)

\* detect_combos called twice on the same inputs.
SpecTwice == InitTwice /\ [][NextTwice]_vars

---------------------------------------------------------------------------
(* detect_combos_by_strictness (combos.py) *)

\* Faulty variant of preset_gap: a level without a preset gets no tolerance.
preset_gap_NoDefault(s) ==
    IF s \in DOMAIN STRICTNESS_PRESETS THEN STRICTNESS_PRESETS[s] ELSE 0

\* `_STRICTNESS_PRESETS.get(strictness, 45)` (line 166)
preset_gap(s) ==
    IF s \in DOMAIN STRICTNESS_PRESETS THEN STRICTNESS_PRESETS[s] ELSE 45

\* The levels passed: the four with a preset, and one without.
Strictnesses == {0, 1, 2, 3, 4}

\* `df["strictness_level"] = strictness` (line 168): the column added to
\* every row.
with_strictness_level(rs, s) ==
    [k \in 1..Len(rs) |-> rs[k] @@ [strictness_level |-> s]]

\* The call of detect_combos_by_strictness up to the call of detect_combos
\* (lines 166-167), on the inputs of detect_combos whose frames are whole.
InitStrictness ==
    /\ \/ /\ IsDefenderTimeline(defender_df)
          /\ attacker_df \in AttackerTimelines(defender_df)
       \/ \E sc \in Scenarios :
             /\ defender_df = sc.defender
             /\ attacker_df = sc.attacker
    /\ WholeRows(defender_df)
    /\ strictness \in Strictnesses
    /\ gap_frames = preset_gap(strictness)
    /\ run = 1
    /\ first_combos = <<>>
    /\ pc = "loop"
    /\ i = 1
    /\ OnlyCombos
    /\ combos = Locals0.combos
    /\ in_combo = Locals0.in_combo
    /\ start_frame = Locals0.start_frame
    /\ start_pct = Locals0.start_pct
    /\ last_hit_frame = Locals0.last_hit_frame
    /\ num_hits = Locals0.num_hits
    /\ started_by = Locals0.started_by
    /\ ended_by = Locals0.ended_by
    /\ current_pct = Locals0.current_pct
    /\ hit_sequence = Locals0.hit_sequence

\* detect_combos has returned: the column is added and the table returned
\* (lines 168-169).
ReturnByStrictness ==
    /\ pc = "done"
    /\ combos' = with_strictness_level(combos, strictness)
    /\ pc' = "returned"
    /\ UNCHANGED <<attacker_df, defender_df, gap_frames, i, in_combo,
                   start_frame, start_pct, last_hit_frame, num_hits,
                   started_by, ended_by, current_pct, hit_sequence,
                   strictness, run, first_combos, otherThanCombos>>

NextStrictness == Iterate \/ Return \/ ReturnByStrictness

SpecStrictness == InitStrictness /\ [][NextStrictness]_vars

\* Longest defender timeline (rows) on consecutive frames.
MaxConsecutive == 7

\* The tolerances tried on consecutive frames: none, one and two idle
\* frames, and the default.
ConsecutiveGaps == {0, 1, 2, 45}

\* The scan on a defender timeline of idle frames and hits on consecutive
\* frame numbers, nothing missing and no stock lost.
InitConsecutive ==
    /\ \E n \in 2..MaxConsecutive :
         \E ev \in [1..(n - 1) -> [step : {1}, kind : {"idle", "hit"},
                                   damage : HitDamages]] :
            defender_df = CompleteTimeline(ev)
    /\ attacker_df \in AttackerTimelines(defender_df)
    /\ gap_frames \in ConsecutiveGaps
    /\ pc = "loop"
    /\ i = 1
    /\ PlainCall
    /\ OnlyCombos
    /\ combos = Locals0.combos
    /\ in_combo = Locals0.in_combo
    /\ start_frame = Locals0.start_frame
    /\ start_pct = Locals0.start_pct
    /\ last_hit_frame = Locals0.last_hit_frame
    /\ num_hits = Locals0.num_hits
    /\ started_by = Locals0.started_by
    /\ ended_by = Locals0.ended_by
    /\ current_pct = Locals0.current_pct
    /\ hit_sequence = Locals0.hit_sequence

SpecConsecutive == InitConsecutive /\ [][Next]_vars

\* The scan on the inputs of the move attribution: every attacker table over
\* the frames of a timeline of hits, and the scenarios.
InitMoves ==
    /\ \/ /\ IsHitTimeline(defender_df)
          /\ \E c \in [1..Len(defender_df) -> AttackerCells] :
                attacker_df = AttackerRows(defender_df, c)
       \/ \E sc \in Scenarios :
             /\ defender_df = sc.defender
             /\ attacker_df = sc.attacker
    /\ gap_frames \in {STRICTNESS_PRESETS[s] : s \in DOMAIN STRICTNESS_PRESETS}
    /\ pc = "loop"
    /\ i = 1
    /\ PlainCall
    /\ OnlyCombos
    /\ combos = Locals0.combos
    /\ in_combo = Locals0.in_combo
    /\ start_frame = Locals0.start_frame
    /\ start_pct = Locals0.start_pct
    /\ last_hit_frame = Locals0.last_hit_frame
    /\ num_hits = Locals0.num_hits
    /\ started_by = Locals0.started_by
    /\ ended_by = Locals0.ended_by
    /\ current_pct = Locals0.current_pct
    /\ hit_sequence = Locals0.hit_sequence

SpecMoves == InitMoves /\ [][Next]_vars

---------------------------------------------------------------------------
(* classify_direction (iteration.py) *)

\* Faulty variant of classify_direction: an action against the facing
\* direction is always labelled 'away'.
classify_direction_BackwardAway(my_x, opp_x, facing, is_forward) ==
    LET opp_in_facing_dir ==
            (facing > 0 /\ opp_x > my_x) \/ (facing < 0 /\ opp_x < my_x)
    IN  IF opp_in_facing_dir
        THEN (IF is_forward THEN "toward" ELSE "away")
        ELSE "away"

\* Faulty variant of classify_direction: the facing direction is not looked
\* at, the player is taken to face right.
classify_direction_FacingIgnored(my_x, opp_x, facing, is_forward) ==
    LET opp_in_facing_dir == opp_x > my_x
    IN  IF opp_in_facing_dir
        THEN (IF is_forward THEN "toward" ELSE "away")
        ELSE (IF is_forward THEN "away" ELSE "toward")

\* The label of an action that goes in the facing direction (is_forward) or
\* against it, relative to the opponent.
classify_direction(my_x, opp_x, facing, is_forward) ==
    LET opp_in_facing_dir ==
            (facing > 0 /\ opp_x > my_x) \/ (facing < 0 /\ opp_x < my_x)
    IN  IF opp_in_facing_dir
        THEN (IF is_forward THEN "toward" ELSE "away")
        ELSE (IF is_forward THEN "away" ELSE "toward")

\* Greatest distance of a position from the centre of the stage.
MaxX == 3

Positions == (0 - MaxX)..MaxX

\* The facing direction is 1 (right) or -1 (left); 0 stands for any other
\* value.
Facings == {-1, 0, 1}

InitDirection ==
    /\ args \in [my_x : Positions, opp_x : Positions, facing : Facings,
                 is_forward : BOOLEAN]
    /\ returned = ""
    /\ OnlyDirection

\* The call returns.
Classify ==
    /\ returned = ""
    /\ returned' = classify_direction(args.my_x, args.opp_x, args.facing,
                                      args.is_forward)
    /\ UNCHANGED <<args, otherThanDirection>>

NextDirection == Classify

SpecDirection == InitDirection /\ [][NextDirection]_vars

---------------------------------------------------------------------------
(* analyze_knockdowns (habits.py), on the two tables of one match *)

TECH_IN_PLACE == 199
TECH_ROLL_F == 200
TECH_ROLL_B == 201

MISSED_BOUND == {183, 191}
MISSED_WAIT == {184, 192}
HIT_DOWN == {185, 193}

GETUP == {186, 194}
GETUP_ATTACK == {187, 195}
DOWN_ROLL_F == {188, 196}
DOWN_ROLL_B == {189, 197}

FALL_STATES == {29, 30, 31, 32, 33, 34}
DAMAGE_STATES == (75..91) \cup {357}

\* The rows the look-ahead after a bounce covers, the bounce row included.
LOOKAHEAD == 300

\* The value of a call that returns nothing.
None == "None"

\* The columns of my_df, with the indices of the code (from 0).
my_states(k) == my_df[k + 1].state
my_frames(k) == my_df[k + 1].frame
airborne_vals(k) == my_df[k + 1].airborne
percents(k) == my_df[k + 1].percent

\* The rows of opp_df that carry a frame.
OppRowsAt(frame) == {k \in 1..Len(opp_df) : opp_df[k].frame = frame}

\* _get_opp_x: the opponent's x on the first of these rows, None without one.
get_opp_x(frame) ==
    IF OppRowsAt(frame) = {} THEN None
    ELSE opp_df[CHOOSE k \in OppRowsAt(frame) :
                    \A m \in OppRowsAt(frame) : k <= m].position_x

\* Faulty variant of direction_at: without a row of the opponent on the frame
\* the opponent is taken to stand at x = 0.
direction_at_OpponentAtZero(j, is_fwd) ==
    classify_direction(my_df[j + 1].position_x,
                       IF OppRowsAt(my_frames(j)) = {} THEN 0
                       ELSE get_opp_x(my_frames(j)),
                       my_df[j + 1].direction, is_fwd)

\* _direction_at(j, is_fwd)
direction_at(j, is_fwd) ==
    IF OppRowsAt(my_frames(j)) = {} THEN None
    ELSE classify_direction(my_df[j + 1].position_x, get_opp_x(my_frames(j)),
                            my_df[j + 1].direction, is_fwd)

\* _add(option, frame, pct): the row appended to rows.
add(rs, option, frame, pct_) ==
    Append(rs, [option |-> option, percent |-> pct_, frame |-> frame])

\* in_tech and in_bound on row k; the row before the first is in neither.
in_tech(k) ==
    k >= 0 /\ my_states(k) \in {TECH_IN_PLACE, TECH_ROLL_F, TECH_ROLL_B}

in_bound(k) == k >= 0 /\ my_states(k) \in MISSED_BOUND

tech_entries(k) == in_tech(k) /\ ~in_tech(k - 1)

bound_entries(k) == in_bound(k) /\ ~in_bound(k - 1)

\* Faulty variant of TechBody: a tech roll is labelled by the direction of
\* the roll itself, not by where the opponent is.
TechBody_OwnDirection(rs, p) ==
    LET s == my_states(p)
        pct_ == percents(p)
    IN  IF s = TECH_IN_PLACE THEN add(rs, "tech in place", my_frames(p), pct_)
        ELSE LET d == direction_at(p, s = TECH_ROLL_F)
             IN  IF d # None
                 THEN add(rs, IF s = TECH_ROLL_F THEN "tech forward"
                              ELSE "tech backward", my_frames(p), pct_)
                 ELSE rs

\* The body of the loop over the tech entries, for the entry on row p.
TechBody(rs, p) ==
    LET s == my_states(p)
        pct_ == percents(p)
    IN  IF s = TECH_IN_PLACE THEN add(rs, "tech in place", my_frames(p), pct_)
        ELSE LET d == direction_at(p, s = TECH_ROLL_F)
             IN  IF d # None THEN add(rs, "tech " \o d, my_frames(p), pct_)
                 ELSE rs

\* Faulty variant of Followup: the look-ahead goes on after a classified row.
RECURSIVE Followup_GoesOn(_, _, _, _)
Followup_GoesOn(rs, j, stop, pct_) ==
    IF j >= stop THEN rs
    ELSE
        LET s == my_states(j)
            more(r) == Followup_GoesOn(r, j + 1, stop, pct_)
        IN  IF s \in MISSED_BOUND \/ s \in MISSED_WAIT THEN more(rs)
            ELSE IF /\ s \in FALL_STATES
                    /\ ~isnan(airborne_vals(j))
                    /\ airborne_vals(j) # 0
                 THEN more(add(rs, "slideoff", my_frames(j), pct_))
            ELSE IF s \in HIT_DOWN \/ s \in DAMAGE_STATES
                 THEN more(add(rs, "hit while down", my_frames(j), pct_))
            ELSE IF s \in GETUP THEN more(add(rs, "getup", my_frames(j), pct_))
            ELSE IF s \in GETUP_ATTACK
                 THEN more(add(rs, "getup attack", my_frames(j), pct_))
            ELSE IF s \in DOWN_ROLL_F \/ s \in DOWN_ROLL_B
                 THEN LET d == direction_at(j, s \in DOWN_ROLL_F)
                      IN  IF d # None
                          THEN more(add(rs, "roll " \o d, my_frames(j), pct_))
                          ELSE more(rs)
            ELSE rs

\* `for j in range(pos + 1, min(pos + 300, len(my_df)))` from row j on: the
\* bounce and lying states are passed over, the first other row is
\* classified or not, and the loop is left.
RECURSIVE Followup(_, _, _, _)
Followup(rs, j, stop, pct_) ==
    IF j >= stop THEN rs
    ELSE
        LET s == my_states(j)
        IN  IF s \in MISSED_BOUND \/ s \in MISSED_WAIT
            THEN Followup(rs, j + 1, stop, pct_)
            ELSE IF /\ s \in FALL_STATES
                    /\ ~isnan(airborne_vals(j))
                    /\ airborne_vals(j) # 0
                 THEN add(rs, "slideoff", my_frames(j), pct_)
            ELSE IF s \in HIT_DOWN \/ s \in DAMAGE_STATES
                 THEN add(rs, "hit while down", my_frames(j), pct_)
            ELSE IF s \in GETUP THEN add(rs, "getup", my_frames(j), pct_)
            ELSE IF s \in GETUP_ATTACK
                 THEN add(rs, "getup attack", my_frames(j), pct_)
            ELSE IF s \in DOWN_ROLL_F \/ s \in DOWN_ROLL_B
                 THEN LET d == direction_at(j, s \in DOWN_ROLL_F)
                      IN  IF d # None
                          THEN add(rs, "roll " \o d, my_frames(j), pct_)
                          ELSE rs
            ELSE rs

\* Faulty variant of BoundBody: every row of the look-ahead that can be
\* classified is, up to the first row of another state.
BoundBody_GoesOn(rs, p) ==
    LET stop == IF p + LOOKAHEAD < Len(my_df) THEN p + LOOKAHEAD
                ELSE Len(my_df)
    IN  Followup_GoesOn(rs, p + 1, stop, percents(p))

\* Faulty variant of BoundBody: the percent of an option is read on the row
\* on which the option was resolved.
BoundBody_PercentAtResolution(rs, p) ==
    LET stop == IF p + LOOKAHEAD < Len(my_df) THEN p + LOOKAHEAD
                ELSE Len(my_df)
        r == Followup(rs, p + 1, stop, percents(p))
    IN  IF Len(r) = Len(rs) THEN r
        ELSE [r EXCEPT ![Len(r)].percent =
                 percents(CHOOSE j \in (p + 1)..(Len(my_df) - 1) :
                              my_frames(j) = r[Len(r)].frame)]

\* The body of the loop over the bounce entries, for the entry on row p.
BoundBody(rs, p) ==
    LET stop == IF p + LOOKAHEAD < Len(my_df) THEN p + LOOKAHEAD
                ELSE Len(my_df)
    IN  Followup(rs, p + 1, stop, percents(p))

\* The rows of my_df after row p.
RowsAfter(p) == (p + 1)..(Len(my_df) - 1)

\* Row q is the first row after row p among the rows `entries`.
IsNextEntry(entries, p, q) ==
    /\ q \in RowsAfter(p) \cap entries
    /\ \A k \in RowsAfter(p) \cap entries : q <= k

(* The inputs *)

\* Longest timeline (rows) of the player.
MaxRows == 4

\* What a row of the player shows: a state with the airborne flag (1 or 0).
\* Both bounces, lying, the getup options, hitstun, a fall in the air and a
\* fall state on the ground (a state the look-ahead does not classify), and
\* the techs.
RowCells ==
    {<<183, 0>>, <<191, 0>>, <<184, 0>>, <<186, 0>>, <<187, 0>>, <<188, 0>>,
     <<189, 0>>, <<80, 1>>, <<29, 1>>, <<29, 0>>, <<199, 0>>, <<200, 0>>,
     <<201, 0>>}

\* The frame of row k: frames increase strictly from -123 and skip values.
FrameOfRow(k) == (k + (k * k) \div 2) - 123

\* The player stands at x = 0 with the opponent to the right, faces right on
\* rows 0, 3, 4, 7, ... and left on the others, and has 10% more on each row.
MyRow(k, cell) ==
    [frame      |-> FrameOfRow(k),
     state      |-> cell[1],
     airborne   |-> cell[2],
     percent    |-> 1000 * (k + 1),
     position_x |-> 0,
     direction  |-> IF k % 4 \in {0, 3} THEN 1 ELSE -1]

\* The opponent's table: a row on each frame of the player but those of the
\* rows 2, 5, ...
OppRows(n) ==
    LET kept == SelectSeq([k \in 1..n |-> k - 1], LAMBDA k : k % 3 # 2)
    IN  [j \in 1..Len(kept) |->
            [frame |-> FrameOfRow(kept[j]), position_x |-> 4000]]

(* The state machine *)

InitKnockdowns ==
    /\ \E n \in 1..MaxRows :
         \E cells \in [1..n -> RowCells] :
            /\ my_df = [k \in 1..n |-> MyRow(k - 1, cells[k])]
            /\ opp_df = OppRows(n)
    /\ rows = <<>>
    /\ phase = "tech"
    /\ pos = -1
    /\ OnlyKnockdowns

\* One iteration of `for idx in my_df.index[tech_entries]`.
TechEntry ==
    /\ phase = "tech"
    /\ \E q \in RowsAfter(pos) :
          /\ IsNextEntry({k \in RowsAfter(-1) : tech_entries(k)}, pos, q)
          /\ rows' = TechBody(rows, q)
          /\ pos' = q
    /\ UNCHANGED <<my_df, opp_df, phase, otherThanKnockdowns>>

\* The tech entries are exhausted: on to the bounce entries.
TechEntriesDone ==
    /\ phase = "tech"
    /\ ~ \E q \in RowsAfter(pos) : tech_entries(q)
    /\ phase' = "missed"
    /\ pos' = -1
    /\ UNCHANGED <<my_df, opp_df, rows, otherThanKnockdowns>>

\* One iteration of `for idx in my_df.index[bound_entries]`, its look-ahead
\* included.
BoundEntry ==
    /\ phase = "missed"
    /\ \E q \in RowsAfter(pos) :
          /\ IsNextEntry({k \in RowsAfter(-1) : bound_entries(k)}, pos, q)
          /\ rows' = BoundBody(rows, q)
          /\ pos' = q
    /\ UNCHANGED <<my_df, opp_df, phase, otherThanKnockdowns>>

\* The bounce entries are exhausted: the match is done.
BoundEntriesDone ==
    /\ phase = "missed"
    /\ ~ \E q \in RowsAfter(pos) : bound_entries(q)
    /\ phase' = "done"
    /\ UNCHANGED <<my_df, opp_df, rows, pos, otherThanKnockdowns>>

NextKnockdowns ==
    TechEntry \/ TechEntriesDone \/ BoundEntry \/ BoundEntriesDone

SpecKnockdowns == InitKnockdowns /\ [][NextKnockdowns]_vars

---------------------------------------------------------------------------
(* find_edgeguards (clips.py) *)
(* Positions are fixed-point numbers in hundredths, as percents are.       *)

\* stages.py: the x of the ledge of each stage that has an entry.
STAGE_GEOMETRY ==
    (2 :> [name |-> "Fountain of Dreams", edge_x |-> 6335]) @@
    (3 :> [name |-> "Pokemon Stadium", edge_x |-> 8775]) @@
    (8 :> [name |-> "Yoshi's Story", edge_x |-> 5600]) @@
    (28 :> [name |-> "Dream Land N64", edge_x |-> 7727]) @@
    (31 :> [name |-> "Battlefield", edge_x |-> 6840]) @@
    (32 :> [name |-> "Final Destination", edge_x |-> 8557])

\* Frames between two off-stage hits of one group, at most.
EG_GAP == 60

\* Frames between the last hit of a group and the stock loss it is given, at
\* most.
EG_KILL_WINDOW == 150

\* opp_y below which the opponent is off-stage, -10.
OFFSTAGE_Y == -1000

abs(x) == IF x < 0 THEN 0 - x ELSE x

\* The table of the match the outer loop is at, and its columns with the
\* indices of the code (from 0).
eg_opp_df == games[game].opp_df
opp_x(k) == eg_opp_df[k + 1].position_x
opp_y(k) == eg_opp_df[k + 1].position_y
opp_pct(k) == eg_opp_df[k + 1].percent
opp_stocks(k) == eg_opp_df[k + 1].stocks
opp_frames(k) == eg_opp_df[k + 1].frame

edge_x == STAGE_GEOMETRY[games[game].stage_id].edge_x

offstage(k) == abs(opp_x(k)) > edge_x \/ opp_y(k) < OFFSTAGE_Y

\* The group a hit on row k opens.
NewGroup(k, dmg) ==
    [start_frame |-> opp_frames(k), end_frame |-> opp_frames(k), hits |-> 1,
     damage |-> Round1(dmg), killed |-> FALSE]

\* Faulty variant of OnOffstageHit: a quiet stretch of more than EG_GAP frames
\* does not close the group, the hit joins it.
OnOffstageHit_AlwaysJoins(s, k, dmg) ==
    IF s.current_eg = NoGroup
    THEN [s EXCEPT !.current_eg = NewGroup(k, dmg)]
    ELSE [s EXCEPT !.current_eg =
                 [@ EXCEPT !.end_frame = opp_frames(k),
                           !.hits = @ + 1,
                           !.damage = Round1(@ * 10 + dmg)]]

\* `if hit_offstage:` on the locals s = [edgeguards, current_eg].
OnOffstageHit(s, k, dmg) ==
    IF s.current_eg = NoGroup
    THEN [s EXCEPT !.current_eg = NewGroup(k, dmg)]
    ELSE IF (opp_frames(k) - s.current_eg.end_frame) <= EG_GAP
    THEN [s EXCEPT !.current_eg =
                 [@ EXCEPT !.end_frame = opp_frames(k),
                           !.hits = @ + 1,
                           !.damage = Round1(@ * 10 + dmg)]]
    ELSE [edgeguards |-> Append(s.edgeguards, s.current_eg),
          current_eg |-> NewGroup(k, dmg)]

\* Faulty variant of OnStockLost: the group is closed as a kill however long
\* ago its last hit was.
OnStockLost_AlwaysKilled(s, k) ==
    [edgeguards |-> Append(s.edgeguards,
                           [s.current_eg EXCEPT !.end_frame = opp_frames(k),
                                                !.killed = TRUE]),
     current_eg |-> NoGroup]

\* Faulty variant of OnStockLost: the group closed by the stock loss stays
\* the open group.
OnStockLost_StaysOpen(s, k) ==
    IF (opp_frames(k) - s.current_eg.end_frame) <= EG_KILL_WINDOW
    THEN [edgeguards |-> Append(s.edgeguards,
                           [s.current_eg EXCEPT !.end_frame = opp_frames(k),
                                                !.killed = TRUE]),
          current_eg |-> s.current_eg]
    ELSE [edgeguards |-> Append(s.edgeguards, s.current_eg),
          current_eg |-> s.current_eg]

\* `if stock_lost and current_eg is not None:`
OnStockLost(s, k) ==
    IF (opp_frames(k) - s.current_eg.end_frame) <= EG_KILL_WINDOW
    THEN [edgeguards |-> Append(s.edgeguards,
                                [s.current_eg EXCEPT
                                     !.end_frame = opp_frames(k),
                                     !.killed = TRUE]),
          current_eg |-> NoGroup]
    ELSE [edgeguards |-> Append(s.edgeguards, s.current_eg),
          current_eg |-> NoGroup]

\* One iteration of the loop over the rows, on row k.
EgLoopBody(s, k) ==
    IF isnan(opp_pct(k)) \/ isnan(opp_pct(k - 1)) THEN s
    ELSE
        LET is_offstage == offstage(k)
            dmg == opp_pct(k) - opp_pct(k - 1)
            hit_offstage == is_offstage /\ dmg > 0
            stock_lost == /\ ~isnan(opp_stocks(k))
                          /\ ~isnan(opp_stocks(k - 1))
                          /\ opp_stocks(k) < opp_stocks(k - 1)
            s1 == IF hit_offstage THEN OnOffstageHit(s, k, dmg) ELSE s
        IN  IF stock_lost /\ s1.current_eg # NoGroup THEN OnStockLost(s1, k)
            ELSE s1

\* The locals after the iterations 1..k on the table of the match.
RECURSIVE EgScan(_)
EgScan(k) ==
    IF k = 0 THEN [edgeguards |-> <<>>, current_eg |-> NoGroup]
    ELSE EgLoopBody(EgScan(k - 1), k)

\* The groups of the match once the rows are exhausted: a group still open
\* is closed as it is.
AllGroups(s) ==
    IF s.current_eg # NoGroup THEN Append(s.edgeguards, s.current_eg)
    ELSE s.edgeguards

\* _clip_row for the group eg of the match m (the `killed` filter is left at
\* its default, None).
ClipRow(m, eg) ==
    [filepath |-> m.filepath, start_frame |-> eg.start_frame,
     end_frame |-> eg.end_frame, pattern_type |-> "edgeguard",
     metadata |-> [hits |-> eg.hits, damage |-> eg.damage,
                   killed |-> eg.killed]]

(* The inputs *)

\* Most matches of one call.
MaxGames == 2

\* The stage of a match: Final Destination, or a stage without geometry.
StageIds == {32, 4}

\* Frames from one row to the next: one step of 76 is beyond the gap and
\* within the kill window, two are beyond the kill window.
EgSteps == {1, 76}

EgEvents == {"idle", "hit", "hit offstage", "death"}

\* Where the opponent is on row k (from 1) that shows the event e: off-stage
\* to the right, to the left or below; on the stage at the ledge, at y = -10
\* or in the middle.
EgPosition(k, e) ==
    IF e = "hit offstage"
    THEN CASE k % 3 = 0 -> [x |-> 9000, y |-> 0]
           [] k % 3 = 1 -> [x |-> -9000, y |-> 500]
           [] OTHER -> [x |-> 0, y |-> -1100]
    ELSE CASE k % 3 = 0 -> [x |-> 8557, y |-> 0]
           [] k % 3 = 1 -> [x |-> 0, y |-> -1000]
           [] OTHER -> [x |-> -3000, y |-> 0]

\* The opponent's table of the events ev (one per row after the first).
EgTimeline(ev) ==
    LET t == CompleteTimeline(ev)
        kind(k) == IF k = 1 THEN "idle" ELSE ev[k - 1].kind
    IN  [k \in 1..Len(t) |->
            [frame |-> t[k].frame, percent |-> t[k].percent,
             stocks |-> t[k].stocks,
             position_x |-> EgPosition(k, kind(k)).x,
             position_y |-> EgPosition(k, kind(k)).y]]

\* A table from its columns, every hit off-stage to the right.
EgTable(fs, ps, ss) ==
    [k \in 1..Len(fs) |->
        [frame |-> fs[k], percent |-> ps[k], stocks |-> ss[k],
         position_x |-> 9000, position_y |-> 0]]

\* Off-stage hits at frames 50, 70 and 200.
EgGapScenario ==
    EgTable(<<49, 50, 70, 200>>, <<0, 1206, 2412, 3618>>, <<4, 4, 4, 4>>)

\* Hits 60 frames apart and the stock lost 150 frames after the second.
EgBoundaryScenario ==
    EgTable(<<9, 10, 70, 220>>, <<0, 1206, 2412, 0>>, <<4, 4, 4, 3>>)

\* Hits 61 frames apart and the stock lost 151 frames after the second.
EgLateScenario ==
    EgTable(<<9, 10, 71, 222>>, <<0, 1206, 2412, 0>>, <<4, 4, 4, 3>>)

\* The replay holds no percent for frame 12, on which the stock is lost two
\* frames after a hit; the next stock is hit at frame 14.
EgMissingScenario ==
    EgTable(<<9, 10, 12, 13, 14>>, <<0, 1206, NaN, 0, 1206>>,
            <<4, 4, 3, 3, 3>>)

EgScenarios ==
    {EgGapScenario, EgBoundaryScenario, EgLateScenario, EgMissingScenario}

\* The matches of one call: the same table on each, the stages ids.
GamesOf(ids, df) ==
    [g \in 1..Len(ids) |->
        [filepath |-> g, stage_id |-> ids[g], opp_df |-> df]]

(* The state machine *)

InitEdgeguards ==
    /\ \E n \in 1..MaxGames :
         \E ids \in [1..n -> StageIds] :
            \/ \E m \in 1..MaxLen :
                 \E ev \in [1..(m - 1) -> [step : EgSteps, kind : EgEvents,
                                           damage : HitDamages]] :
                    /\ WellFormed(CompleteTimeline(ev))
                    /\ games = GamesOf(ids, EgTimeline(ev))
            \/ \E df \in EgScenarios : games = GamesOf(ids, df)
    /\ game = 0
    /\ eg_pc = "games"
    /\ eg_i = 0
    /\ edgeguards = <<>>
    /\ current_eg = NoGroup
    /\ eg_rows = <<>>
    /\ OnlyEdgeguards

\* Faulty variant of SkipGame: a match whose stage has no geometry ends the
\* call, the matches after it are not taken up.
SkipGame_Aborts ==
    /\ eg_pc = "games"
    /\ game < Len(games)
    /\ games[game + 1].stage_id \notin DOMAIN STAGE_GEOMETRY
    /\ game' = game + 1
    /\ eg_pc' = "done"
    /\ UNCHANGED <<games, eg_i, edgeguards, current_eg, eg_rows,
                   otherThanEdgeguards>>

\* The outer loop takes up a match whose stage has no geometry: `continue`.
SkipGame ==
    /\ eg_pc = "games"
    /\ game < Len(games)
    /\ games[game + 1].stage_id \notin DOMAIN STAGE_GEOMETRY
    /\ game' = game + 1
    /\ UNCHANGED <<games, eg_pc, eg_i, edgeguards, current_eg, eg_rows,
                   otherThanEdgeguards>>

\* The outer loop takes up a match whose stage has geometry.
StartGame ==
    /\ eg_pc = "games"
    /\ game < Len(games)
    /\ games[game + 1].stage_id \in DOMAIN STAGE_GEOMETRY
    /\ game' = game + 1
    /\ eg_pc' = "scan"
    /\ eg_i' = 1
    /\ edgeguards' = <<>>
    /\ current_eg' = NoGroup
    /\ UNCHANGED <<games, eg_rows, otherThanEdgeguards>>

\* One iteration of `for i in range(1, len(opp_pct))`.
ScanRow ==
    /\ eg_pc = "scan"
    /\ eg_i < Len(eg_opp_df)
    /\ LET s == EgLoopBody([edgeguards |-> edgeguards,
                            current_eg |-> current_eg], eg_i)
       IN  /\ edgeguards' = s.edgeguards
           /\ current_eg' = s.current_eg
    /\ eg_i' = eg_i + 1
    /\ UNCHANGED <<games, game, eg_pc, eg_rows, otherThanEdgeguards>>

\* The rows are exhausted: the open group is closed and a clip row is
\* appended for each group of the match.
EndGame ==
    /\ eg_pc = "scan"
    /\ eg_i >= Len(eg_opp_df)
    /\ LET all == AllGroups([edgeguards |-> edgeguards,
                             current_eg |-> current_eg])
       IN  /\ edgeguards' = all
           /\ eg_rows' = eg_rows \o
                 [n \in 1..Len(all) |-> ClipRow(games[game], all[n])]
    /\ current_eg' = NoGroup
    /\ eg_pc' = "games"
    /\ UNCHANGED <<games, game, eg_i, otherThanEdgeguards>>

\* The matches are exhausted: return.
ReturnEdgeguards ==
    /\ eg_pc = "games"
    /\ game >= Len(games)
    /\ eg_pc' = "done"
    /\ UNCHANGED <<games, game, eg_i, edgeguards, current_eg, eg_rows,
                   otherThanEdgeguards>>

NextEdgeguards ==
    SkipGame \/ StartGame \/ ScanRow \/ EndGame \/ ReturnEdgeguards

SpecEdgeguards == InitEdgeguards /\ [][NextEdgeguards]_vars

---------------------------------------------------------------------------
(* find_neutral_openings (neutral.py), on the two tables of one match *)

NT_DAMAGE_STATES == (75..91) \cup {357}
GRABBED_STATES == (223..232) \cup {211, 212, 213, 214}
DEAD_STATES == 0..10
SPAWN_STATES == {12, 13}

NON_NEUTRAL_STATES ==
    NT_DAMAGE_STATES \cup GRABBED_STATES \cup DEAD_STATES \cup SPAWN_STATES

is_non_neutral(state) == state \in NON_NEUTRAL_STATES

OPENER_GROUPS ==
    [mv \in {"D-throw", "F-throw", "U-throw", "B-throw"} |-> "grab"] @@
    [mv \in {"Bair", "Fair", "Nair", "Uair", "Dair"} |-> "aerial"] @@
    [mv \in {"Neutral B", "Side B"} |-> "projectile"] @@
    [mv \in {"Jab", "Jab 2", "Jab 3", "Jab 4"} |-> "jab"] @@
    [mv \in {"F-tilt", "U-tilt", "D-tilt"} |-> "tilt"] @@
    [mv \in {"Dash Attack"} |-> "dash_attack"] @@
    [mv \in {"F-smash", "U-smash", "D-smash"} |-> "smash"]

\* `neutral_start_frame is None`: no frame of a replay.
NoFrame == -1000

\* The frames of a table.
FramesOf(df) == {df[k].frame : k \in 1..Len(df)}

\* sorted(S)
RECURSIVE Sorted(_)
Sorted(S) ==
    IF S = {} THEN <<>>
    ELSE LET m == CHOOSE x \in S : \A y \in S : x <= y
         IN  <<m>> \o Sorted(S \ {m})

\* sorted(set(my_frames) & set(opp_frames))
frame_set == Sorted(FramesOf(nt_my_df) \cap FramesOf(nt_opp_df))

\* my_f2i and opp_f2i: the last row of the table that carries frame f.
f2i(df, f) ==
    CHOOSE k \in 1..Len(df) :
        /\ df[k].frame = f
        /\ \A m \in 1..Len(df) : df[m].frame = f => m <= k

\* The locals of the loop over frame_set.
NtLocals0 ==
    [neutral_start_frame |-> NoFrame, neutral_start_my_pct |-> 0,
     neutral_start_opp_pct |-> 0, neutral_start_my_x |-> 0, rows |-> <<>>]

\* The row appended for a window of nd frames that ends with `outcome`, the
\* move read from move_id_val.
OpeningRow(s, nd, outcome, move_id_val) ==
    LET mv == IF ~isnan(move_id_val) /\ move_id_val # 0
              THEN move_name(move_id_val) ELSE "unknown"
    IN  [outcome |-> outcome,
         neutral_frames |-> nd,
         opener_move |-> mv,
         opener_group |-> IF mv \in DOMAIN OPENER_GROUPS
                          THEN OPENER_GROUPS[mv] ELSE "other",
         my_pct |-> s.neutral_start_my_pct,
         opp_pct |-> s.neutral_start_opp_pct,
         my_pos_x |-> s.neutral_start_my_x]

\* Faulty variant of NtLoopBody: the window is 'lost' whenever the player is
\* in a damage state, the opponent's state unseen.
NtLoopBody_AmbiguousLost(s, f) ==
    LET my == nt_my_df[f2i(nt_my_df, f)]
        opp == nt_opp_df[f2i(nt_opp_df, f)]
        ms == IF ~isnan(my.state) THEN my.state ELSE 0
        os_ == IF ~isnan(opp.state) THEN opp.state ELSE 0
        both_free == ~is_non_neutral(ms) /\ ~is_non_neutral(os_)
        nd == f - s.neutral_start_frame
        reset == [s EXCEPT !.neutral_start_frame = NoFrame]
    IN  IF both_free
        THEN IF s.neutral_start_frame = NoFrame
             THEN [s EXCEPT
                     !.neutral_start_frame = f,
                     !.neutral_start_my_pct =
                         IF ~isnan(my.percent) THEN my.percent ELSE 0,
                     !.neutral_start_opp_pct =
                         IF ~isnan(opp.percent) THEN opp.percent ELSE 0,
                     !.neutral_start_my_x =
                         IF ~isnan(my.position_x) THEN my.position_x ELSE 0]
             ELSE s
        ELSE IF s.neutral_start_frame # NoFrame /\ nd >= min_neutral_frames
        THEN IF ms \in NT_DAMAGE_STATES
             THEN [reset EXCEPT !.rows = Append(@,
                       OpeningRow(s, nd, "lost", my.last_attack_landed))]
             ELSE IF os_ \in NT_DAMAGE_STATES
             THEN [reset EXCEPT !.rows = Append(@,
                       OpeningRow(s, nd, "won", my.last_attack_landed))]
             ELSE reset
        ELSE reset

\* Faulty variant of NtLoopBody: a window that is too short is not given up,
\* its marker stays.
NtLoopBody_ShortKept(s, f) ==
    LET my == nt_my_df[f2i(nt_my_df, f)]
        opp == nt_opp_df[f2i(nt_opp_df, f)]
        ms == IF ~isnan(my.state) THEN my.state ELSE 0
        os_ == IF ~isnan(opp.state) THEN opp.state ELSE 0
        both_free == ~is_non_neutral(ms) /\ ~is_non_neutral(os_)
        nd == f - s.neutral_start_frame
        reset == [s EXCEPT !.neutral_start_frame = NoFrame]
    IN  IF both_free
        THEN IF s.neutral_start_frame = NoFrame
             THEN [s EXCEPT
                     !.neutral_start_frame = f,
                     !.neutral_start_my_pct =
                         IF ~isnan(my.percent) THEN my.percent ELSE 0,
                     !.neutral_start_opp_pct =
                         IF ~isnan(opp.percent) THEN opp.percent ELSE 0,
                     !.neutral_start_my_x =
                         IF ~isnan(my.position_x) THEN my.position_x ELSE 0]
             ELSE s
        ELSE IF s.neutral_start_frame # NoFrame /\ nd >= min_neutral_frames
        THEN IF ms \in NT_DAMAGE_STATES /\ os_ \notin NT_DAMAGE_STATES
             THEN [reset EXCEPT !.rows = Append(@,
                       OpeningRow(s, nd, "lost", my.last_attack_landed))]
             ELSE IF os_ \in NT_DAMAGE_STATES /\ ms \notin NT_DAMAGE_STATES
             THEN [reset EXCEPT !.rows = Append(@,
                       OpeningRow(s, nd, "won", my.last_attack_landed))]
             ELSE reset
        ELSE s

\* One iteration of `for f in frame_set` on the locals s.
NtLoopBody(s, f) ==
    LET my == nt_my_df[f2i(nt_my_df, f)]
        opp == nt_opp_df[f2i(nt_opp_df, f)]
        ms == IF ~isnan(my.state) THEN my.state ELSE 0
        os_ == IF ~isnan(opp.state) THEN opp.state ELSE 0
        both_free == ~is_non_neutral(ms) /\ ~is_non_neutral(os_)
        nd == f - s.neutral_start_frame
        reset == [s EXCEPT !.neutral_start_frame = NoFrame]
    IN  IF both_free
        THEN IF s.neutral_start_frame = NoFrame
             THEN [s EXCEPT
                     !.neutral_start_frame = f,
                     !.neutral_start_my_pct =
                         IF ~isnan(my.percent) THEN my.percent ELSE 0,
                     !.neutral_start_opp_pct =
                         IF ~isnan(opp.percent) THEN opp.percent ELSE 0,
                     !.neutral_start_my_x =
                         IF ~isnan(my.position_x) THEN my.position_x ELSE 0]
             ELSE s
        ELSE IF s.neutral_start_frame # NoFrame /\ nd >= min_neutral_frames
        THEN IF ms \in NT_DAMAGE_STATES /\ os_ \notin NT_DAMAGE_STATES
             THEN [reset EXCEPT !.rows = Append(@,
                       OpeningRow(s, nd, "lost", my.last_attack_landed))]
             ELSE IF os_ \in NT_DAMAGE_STATES /\ ms \notin NT_DAMAGE_STATES
             THEN [reset EXCEPT !.rows = Append(@,
                       OpeningRow(s, nd, "won", my.last_attack_landed))]
             ELSE reset
        ELSE reset

(* The inputs *)

\* Most frames the two tables have in common.
MaxFrames == 3

\* The window length asked for: the default, and a short one.
MinNeutralFrames == {15, 3}

\* Frames from one common frame to the next.
NtSteps == {2, 16}

\* The state of a player on a frame: standing, hitstun, missing (the player
\* only) or grabbed (the opponent only).
NtMyStates == {14, 80, NaN}
NtOppStates == {14, 80, 227}

\* The move each player landed last, by the place of the frame (from 1).
NtMyMove(k) == <<14, 17, 0, NaN>>[((k - 1) % 4) + 1]
NtOppMove(k) == <<10, 15, 16, 11>>[((k - 1) % 4) + 1]

\* The common frames of the steps st (one per frame after the first).
RECURSIVE NtFrames(_)
NtFrames(st) ==
    IF Len(st) = 0 THEN <<-123>>
    ELSE LET fs == NtFrames(SubSeq(st, 1, Len(st) - 1))
         IN  Append(fs, fs[Len(fs)] + st[Len(st)])

NtRow(f, state, pct_, x, lal) ==
    [frame |-> f, state |-> state, percent |-> pct_, position_x |-> x,
     last_attack_landed |-> lal]

\* The player's table: a row on each common frame, and a row in hitstun on
\* the frame after the first that the opponent has no row for.
NtMyTable(fs, sts) ==
    LET common == [k \in 1..Len(fs) |->
                      NtRow(fs[k], sts[k].my, 1000 * k, 100 * k, NtMyMove(k))]
    IN  <<common[1], NtRow(fs[1] + 1, 80, 1000, 100, 14)>> \o Tail(common)

\* The opponent's table: a row on each common frame, and before the last a
\* row in hitstun on a frame that the player has no row for.
NtOppTable(fs, sts) ==
    LET n == Len(fs)
        common == [k \in 1..n |->
                      NtRow(fs[k], sts[k].opp, 500 * k, 0 - 100 * k,
                            NtOppMove(k))]
    IN  SubSeq(common, 1, n - 1)
            \o <<NtRow(fs[n] - 1, 80, 500, -100, 10), common[n]>>

(* The state machine *)

InitNeutral ==
    /\ \E n \in 1..MaxFrames :
         \E st \in [1..(n - 1) -> NtSteps] :
           \E sts \in [1..n -> [my : NtMyStates, opp : NtOppStates]] :
              /\ nt_my_df = NtMyTable(NtFrames(st), sts)
              /\ nt_opp_df = NtOppTable(NtFrames(st), sts)
    /\ min_neutral_frames \in MinNeutralFrames
    /\ nt_pc = "loop"
    /\ nt_k = 0
    /\ neutral_start_frame = NtLocals0.neutral_start_frame
    /\ neutral_start_my_pct = NtLocals0.neutral_start_my_pct
    /\ neutral_start_opp_pct = NtLocals0.neutral_start_opp_pct
    /\ neutral_start_my_x = NtLocals0.neutral_start_my_x
    /\ nt_rows = NtLocals0.rows
    /\ OnlyNeutral

\* One iteration of `for f in frame_set`.
NeutralFrame ==
    /\ nt_pc = "loop"
    /\ nt_k < Len(frame_set)
    /\ LET s == NtLoopBody(
                    [neutral_start_frame |-> neutral_start_frame,
                     neutral_start_my_pct |-> neutral_start_my_pct,
                     neutral_start_opp_pct |-> neutral_start_opp_pct,
                     neutral_start_my_x |-> neutral_start_my_x,
                     rows |-> nt_rows], frame_set[nt_k + 1])
       IN  /\ neutral_start_frame' = s.neutral_start_frame
           /\ neutral_start_my_pct' = s.neutral_start_my_pct
           /\ neutral_start_opp_pct' = s.neutral_start_opp_pct
           /\ neutral_start_my_x' = s.neutral_start_my_x
           /\ nt_rows' = s.rows
    /\ nt_k' = nt_k + 1
    /\ UNCHANGED <<nt_my_df, nt_opp_df, min_neutral_frames, nt_pc,
                   otherThanNeutral>>

\* frame_set is exhausted: return.
ReturnNeutral ==
    /\ nt_pc = "loop"
    /\ nt_k >= Len(frame_set)
    /\ nt_pc' = "done"
    /\ UNCHANGED <<nt_my_df, nt_opp_df, min_neutral_frames, nt_k,
                   neutral_start_frame, neutral_start_my_pct,
                   neutral_start_opp_pct, neutral_start_my_x, nt_rows,
                   otherThanNeutral>>

NextNeutral == NeutralFrame \/ ReturnNeutral

SpecNeutral == InitNeutral /\ [][NextNeutral]_vars

---------------------------------------------------------------------------
(* find_confirmed_events (clips.py), on the two tables of one match, the    *)
(* trigger and the outcome resolved                                        *)

\* `min_opp_pct is None`
NoMinPct == -1

\* The trigger move: "dair" resolves to 17.
trigger_move_id == 17

\* The trigger states: ACTION_STATE_CATEGORIES["throw"].
trigger_states == {219, 220, 221, 222}

\* resolve_move(outcome) for the aliases of the model.
outcome_move_id == IF ce_outcome = "fair" THEN 14 ELSE 0

\* The columns of the two tables, with the indices of the code (from 0).
reactor_pct_arr(k) == ce_reactor_df[k + 1].percent
reactor_stocks_arr(k) == ce_reactor_df[k + 1].stocks
reactor_frames_arr(k) == ce_reactor_df[k + 1].frame
actor_frames_arr(k) == ce_actor_df[k + 1].frame
actor_states_arr(k) == ce_actor_df[k + 1].state

\* actor_lal_map.get(frame), then `int(lal_val) if lal_val is not None and
\* not pd.isna(lal_val) else 0`; the last row of a frame wins.
actor_mid(frame) ==
    LET at == {k \in 1..Len(ce_actor_df) : ce_actor_df[k].frame = frame}
        last == CHOOSE k \in at : \A m \in at : m <= k
    IN  IF at # {} /\ ~isnan(ce_actor_df[last].last_attack_landed)
        THEN ce_actor_df[last].last_attack_landed ELSE 0

\* np.searchsorted(reactor_frames_arr, v): the number of rows before v.
searchsorted(v) ==
    Cardinality({k \in 1..Len(ce_reactor_df) : ce_reactor_df[k].frame < v})

\* Row j of the reactor is a hit: the percent went up on the same stock.
reactor_hit(j) ==
    /\ ~isnan(reactor_pct_arr(j))
    /\ ~isnan(reactor_pct_arr(j - 1))
    /\ reactor_pct_arr(j) > reactor_pct_arr(j - 1)
    /\ ~isnan(reactor_stocks_arr(j))
    /\ reactor_stocks_arr(j) = reactor_stocks_arr(j - 1)

\* The state of row k of the actor, 0 for a missing one.
actor_state(k) ==
    IF ~isnan(actor_states_arr(k)) THEN actor_states_arr(k) ELSE 0

\* Faulty variant of find_trigger_events: a trigger on the row right after
\* another trigger is left out.
find_trigger_events_Spaced ==
    LET all == IF trigger_type = "move"
               THEN SelectSeq([k \in 1..(Len(ce_reactor_df) - 1) |-> k],
                       LAMBDA j : /\ reactor_hit(j)
                                  /\ actor_mid(reactor_frames_arr(j))
                                        = trigger_move_id)
               ELSE SelectSeq([k \in 1..(Len(ce_actor_df) - 1) |-> k],
                       LAMBDA j : /\ actor_state(j) \in trigger_states
                                  /\ actor_state(j - 1) \notin trigger_states)
        kept == SelectSeq(all, LAMBDA j :
                    ~(trigger_type = "move" /\ j > 1 /\ reactor_hit(j - 1)
                        /\ actor_mid(reactor_frames_arr(j - 1))
                              = trigger_move_id))
    IN  [n \in 1..Len(kept) |->
            <<kept[n], IF trigger_type = "move"
                       THEN reactor_frames_arr(kept[n])
                       ELSE actor_frames_arr(kept[n])>>]

\* The list trigger_events after the loop of its trigger type (lines
\* 753-772).
find_trigger_events ==
    IF trigger_type = "move"
    THEN LET js == SelectSeq([k \in 1..(Len(ce_reactor_df) - 1) |-> k],
                       LAMBDA j : /\ reactor_hit(j)
                                  /\ actor_mid(reactor_frames_arr(j))
                                        = trigger_move_id)
         IN  [n \in 1..Len(js) |-> <<js[n], reactor_frames_arr(js[n])>>]
    ELSE IF trigger_type = "state"
    THEN LET js == SelectSeq([k \in 1..(Len(ce_actor_df) - 1) |-> k],
                       LAMBDA j : /\ actor_state(j) \in trigger_states
                                  /\ actor_state(j - 1) \notin trigger_states)
         IN  [n \in 1..Len(js) |-> <<js[n], actor_frames_arr(js[n])>>]
    ELSE <<>>

\* The loop of outcome "kill" from row k on: the frame of the first row of
\* the window with fewer stocks than opp_stock_at, NoFrame without one.
RECURSIVE kill_scan(_, _, _)
kill_scan(k, trigger_frame, opp_stock_at) ==
    IF k >= Len(ce_reactor_df) THEN NoFrame
    ELSE IF reactor_frames_arr(k) > trigger_frame + window_frames THEN NoFrame
    ELSE IF /\ ~isnan(reactor_stocks_arr(k))
            /\ reactor_stocks_arr(k) < opp_stock_at
         THEN reactor_frames_arr(k)
    ELSE kill_scan(k + 1, trigger_frame, opp_stock_at)

\* The loop of a move outcome from row k on: the frame of the first hit of
\* the window that is attributed to the outcome move, NoFrame without one.
RECURSIVE move_scan(_, _)
move_scan(k, trigger_frame) ==
    IF k >= Len(ce_reactor_df) THEN NoFrame
    ELSE IF reactor_frames_arr(k) > trigger_frame + window_frames THEN NoFrame
    ELSE IF reactor_hit(k) /\ actor_mid(reactor_frames_arr(k)) = outcome_move_id
         THEN reactor_frames_arr(k)
    ELSE move_scan(k + 1, trigger_frame)

\* outcome_frame after the branch of the outcome (lines 789-820).
outcome_frame_of(trigger_frame, opp_stock_at) ==
    IF ce_outcome = None THEN NoFrame
    ELSE IF ce_outcome = "kill"
         THEN kill_scan(searchsorted(trigger_frame + 1), trigger_frame,
                        opp_stock_at)
    ELSE move_scan(searchsorted(trigger_frame + 1), trigger_frame)

\* The body of `for _, trigger_frame in trigger_events` (lines 775-848): the
\* rows after it.
check_outcome(rs, trigger_frame) ==
    LET r_idx == searchsorted(trigger_frame)
        pct_ref == IF trigger_type = "move"
                   THEN (IF r_idx - 1 > 0 THEN r_idx - 1 ELSE 0)
                   ELSE r_idx
        opp_pct_at == IF ~isnan(reactor_pct_arr(pct_ref))
                      THEN reactor_pct_arr(pct_ref) ELSE 0
        opp_stock_at == IF ~isnan(reactor_stocks_arr(r_idx))
                        THEN reactor_stocks_arr(r_idx) ELSE 4
        outcome_frame == outcome_frame_of(trigger_frame, opp_stock_at)
        converted == ce_outcome = None \/ outcome_frame # NoFrame
    IN  IF r_idx >= Len(ce_reactor_df) THEN rs
        ELSE IF min_opp_pct # NoMinPct /\ opp_pct_at < min_opp_pct THEN rs
        ELSE Append(rs,
               [start_frame |-> trigger_frame,
                end_frame |-> IF outcome_frame # NoFrame THEN outcome_frame
                              ELSE trigger_frame +
                                   (IF window_frames < 120 THEN window_frames
                                    ELSE 120),
                pattern_type |-> "confirmed_event",
                trigger_type |-> trigger_type,
                trigger_frame |-> trigger_frame,
                outcome_type |-> IF ce_outcome = None THEN "any"
                                 ELSE IF ce_outcome = "kill" THEN "kill"
                                 ELSE move_name(outcome_move_id),
                outcome_frame |-> outcome_frame,
                converted |-> converted,
                opp_pct_at_trigger |-> opp_pct_at])

(* The inputs *)

\* Longest timeline (rows) of the two players.
MaxTimeline == 4

\* Frames from one row to the next: the next frame, or a whole window on.
CeSteps == {1, 300}

\* What a frame does to the reactor when the trigger is a move: nothing, a
\* hit by the trigger move, a hit by another move (Fair), a death, or the
\* replay holds no data of the reactor for the frame.
CeMoveEvents == {"idle", "hit 17", "hit 14", "death", "missing"}

\* What a frame shows when the trigger is a state: the state of the actor (a
\* throw or standing), and what happens to the reactor.
CeStateEvents == {219, 14} \X {"idle", "death", "missing"}

\* The reactor's values on a row, missing ones left out: the values after
\* event e on the values r.
CeReactorAfter(r, e) ==
    [percent |-> CASE e \in {"hit 17", "hit 14"} -> r.percent + 1206
                   [] e = "death" -> 0
                   [] OTHER -> r.percent,
     stocks  |-> IF e = "death" THEN r.stocks - 1 ELSE r.stocks]

\* The reactor's values at the end of the events ev.
RECURSIVE CeReactorValues(_)
CeReactorValues(ev) ==
    IF Len(ev) = 0 THEN [percent |-> 0, stocks |-> 4]
    ELSE CeReactorAfter(CeReactorValues(SubSeq(ev, 1, Len(ev) - 1)),
                        ev[Len(ev)])

\* The frame of each row, for the steps st (one per row after the first).
RECURSIVE CeFrames(_)
CeFrames(st) ==
    IF Len(st) = 0 THEN <<-123>>
    ELSE LET fs == CeFrames(SubSeq(st, 1, Len(st) - 1))
         IN  Append(fs, fs[Len(fs)] + st[Len(st)])

\* The reactor's table for the frames fs and the events ev of the rows after
\* the first.
CeReactorTable(fs, ev) ==
    [k \in 1..Len(fs) |->
        LET v == CeReactorValues(SubSeq(ev, 1, k - 1))
            missing == k > 1 /\ ev[k - 1] = "missing"
        IN  [frame |-> fs[k],
             percent |-> IF missing THEN NaN ELSE v.percent,
             stocks |-> IF missing THEN NaN ELSE v.stocks]]

\* The move the actor landed last on the row after event e.
CeLanded(e) == IF e = "hit 17" THEN 17 ELSE 14

(* The state machine *)

\* The two tables hold the same frames (extract_player_frames gives every
\* player a row for every frame of the replay).
InitConfirmed ==
    /\ \E n \in 2..MaxTimeline :
         \E st \in [1..(n - 1) -> CeSteps] :
            \/ /\ trigger_type = "move"
               /\ ce_outcome \in {None, "kill", "fair"}
               /\ min_opp_pct \in {NoMinPct, 1000}
               /\ \E ev \in [1..(n - 1) -> CeMoveEvents] :
                     /\ CeReactorValues(ev).stocks >= 1
                     /\ ce_reactor_df = CeReactorTable(CeFrames(st), ev)
                     /\ ce_actor_df =
                           [k \in 1..n |->
                               [frame |-> CeFrames(st)[k],
                                state |-> 14,
                                last_attack_landed |->
                                    IF k = 1 THEN 0 ELSE CeLanded(ev[k - 1])]]
            \/ /\ trigger_type = "state"
               /\ ce_outcome \in {None, "kill"}
               /\ min_opp_pct = NoMinPct
               /\ \E first \in {219, 14} :
                   \E ev \in [1..(n - 1) -> CeStateEvents] :
                     LET rev == [k \in 1..(n - 1) |-> ev[k][2]]
                     IN  /\ CeReactorValues(rev).stocks >= 1
                         /\ ce_reactor_df = CeReactorTable(CeFrames(st), rev)
                         /\ ce_actor_df =
                               [k \in 1..n |->
                                   [frame |-> CeFrames(st)[k],
                                    state |-> IF k = 1 THEN first
                                              ELSE ev[k - 1][1],
                                    last_attack_landed |-> 14]]
    /\ window_frames = 300
    /\ ce_pc = "triggers"
    /\ trigger_events = <<>>
    /\ ce_t = 0
    /\ ce_rows = <<>>
    /\ OnlyConfirmed

\* The loop that fills trigger_events, of the trigger type.
FindTriggers ==
    /\ ce_pc = "triggers"
    /\ trigger_events' = find_trigger_events
    /\ ce_pc' = "outcomes"
    /\ UNCHANGED <<ce_actor_df, ce_reactor_df, trigger_type, ce_outcome,
                   window_frames, min_opp_pct, ce_t, ce_rows,
                   otherThanConfirmed>>

\* One iteration of `for _, trigger_frame in trigger_events`.
CheckOutcome ==
    /\ ce_pc = "outcomes"
    /\ ce_t < Len(trigger_events)
    /\ ce_rows' = check_outcome(ce_rows, trigger_events[ce_t + 1][2])
    /\ ce_t' = ce_t + 1
    /\ UNCHANGED <<ce_actor_df, ce_reactor_df, trigger_type, ce_outcome,
                   window_frames, min_opp_pct, ce_pc, trigger_events,
                   otherThanConfirmed>>

\* The trigger events are exhausted: return.
ReturnConfirmed ==
    /\ ce_pc = "outcomes"
    /\ ce_t >= Len(trigger_events)
    /\ ce_pc' = "done"
    /\ UNCHANGED <<ce_actor_df, ce_reactor_df, trigger_type, ce_outcome,
                   window_frames, min_opp_pct, trigger_events, ce_t, ce_rows,
                   otherThanConfirmed>>

NextConfirmed == FindTriggers \/ CheckOutcome \/ ReturnConfirmed

SpecConfirmed == InitConfirmed /\ [][NextConfirmed]_vars

---------------------------------------------------------------------------
(* find_kills (query.py) *)

BLASTZONE_MAP ==
    (0 :> "bottom") @@ (1 :> "left") @@ (2 :> "right") @@ (3 :> "top") @@
    (4 :> "top") @@ (5 :> "top") @@ (6 :> "top") @@ (7 :> "top") @@
    (8 :> "top") @@ (9 :> "top") @@ (10 :> "top")

\* np.where(np.diff(stocks) < 0)[0]: the rows (from 0) before a row with
\* fewer stocks, in their order; a difference with a missing value is not
\* below zero.
death_indices ==
    SelectSeq([k \in 1..(Len(q_df) - 1) |-> k - 1],
              LAMBDA d : /\ ~isnan(q_df[d + 1].stocks)
                         /\ ~isnan(q_df[d + 2].stocks)
                         /\ q_df[d + 2].stocks - q_df[d + 1].stocks < 0)

\* _atk_lal_map.get(frame): the last row of the frame wins, NaN for None.
kills_atk_val(frame) ==
    LET at == {k \in 1..Len(q_attacker_df) : q_attacker_df[k].frame = frame}
        last == CHOOSE k \in at : \A m \in at : m <= k
    IN  IF at # {} THEN q_attacker_df[last].last_attack_landed ELSE NaN

\* move_id of the death after row pre_death (lines 138-146), NaN for None.
killing_move_id_of(pre_death) ==
    LET atk_val == IF q_attacker_given THEN kills_atk_val(pre_death.frame)
                   ELSE NaN
    IN  IF ~isnan(atk_val) THEN atk_val
        ELSE pre_death.last_attack_landed

\* The body of `for di in death_indices` (lines 131-160): the rows after it.
\* A None of a number is NaN, a None of a name is None.
kills_body(rs, di) ==
    LET pre_death == q_df[di + 1]
        post_death == IF di + 1 < Len(q_df) THEN q_df[di + 2] ELSE pre_death
        death_state == post_death.state
        move_id == killing_move_id_of(pre_death)
    IN  Append(rs,
          [frame |-> pre_death.frame,
           stock_lost |-> pre_death.stocks,
           death_percent |-> IF ~isnan(pre_death.percent)
                             THEN Round1(pre_death.percent) ELSE NaN,
           death_state |-> death_state,
           blastzone |-> IF death_state \in DOMAIN BLASTZONE_MAP
                         THEN BLASTZONE_MAP[death_state] ELSE None,
           killing_move_id |-> move_id,
           killing_move |-> IF ~isnan(move_id) THEN move_name(move_id)
                            ELSE None])

(* The inputs *)

\* Longest table (rows) of a call of query.py.
MaxQueryRows == 4

\* What a frame does to the victim: nothing, a hit, a death, or the replay
\* holds no data of the victim for the frame.
KillEvents == {"idle", "hit", "death", "missing"}

\* The victim's values after event e on the values r.
KillAfter(r, e) ==
    [percent |-> CASE e = "hit" -> r.percent + 1206
                   [] e = "death" -> 0
                   [] OTHER -> r.percent,
     stocks  |-> IF e = "death" THEN r.stocks - 1 ELSE r.stocks]

RECURSIVE KillValues(_)
KillValues(ev) ==
    IF Len(ev) = 0 THEN [percent |-> 4224, stocks |-> 4]
    ELSE KillAfter(KillValues(SubSeq(ev, 1, Len(ev) - 1)), ev[Len(ev)])

\* The move the victim itself landed last by the time of row k: Jab on the
\* odd rows, none yet on the even ones.
KillOwnMove(k) == IF k % 2 = 1 THEN 2 ELSE NaN

\* The victim's table of the events ev (one per row after the first): a row
\* on every frame from -123, the state a death from the top (4) on the row
\* of a death and standing elsewhere.
KillVictimTable(ev) ==
    [k \in 1..(Len(ev) + 1) |->
        LET v == KillValues(SubSeq(ev, 1, k - 1))
            e == IF k > 1 THEN ev[k - 1] ELSE "idle"
        IN  [frame |-> k - 124,
             state |-> CASE e = "death" -> 4
                         [] e = "missing" -> NaN
                         [] OTHER -> 14,
             stocks |-> IF e = "missing" THEN NaN ELSE v.stocks,
             percent |-> IF e = "missing" THEN NaN ELSE v.percent,
             last_attack_landed |-> KillOwnMove(k)]]

(* The state machine *)

InitKills ==
    /\ \E n \in 2..MaxQueryRows :
         \E ev \in [1..(n - 1) -> KillEvents] :
            /\ q_df = KillVictimTable(ev)
            /\ \/ /\ q_attacker_given = TRUE
                  /\ \E c \in [1..n -> AttackerCells] :
                        q_attacker_df = AttackerRows(q_df, c)
               \/ /\ q_attacker_given = FALSE
                  /\ q_attacker_df = <<>>
    /\ q_states = {}
    /\ q_trigger_indices = <<>>
    /\ q_window_frames = 0
    /\ q_pc = "loop"
    /\ q_k = 0
    /\ q_entries = <<>>
    /\ q_exits = <<>>
    /\ q_rows = <<>>
    /\ OnlyQuery

\* One iteration of `for di in death_indices`.
KillsIterate ==
    /\ q_pc = "loop"
    /\ q_k < Len(death_indices)
    /\ q_rows' = kills_body(q_rows, death_indices[q_k + 1])
    /\ q_k' = q_k + 1
    /\ UNCHANGED <<q_df, q_attacker_df, q_attacker_given, q_states,
                   q_trigger_indices, q_window_frames, q_pc, q_entries,
                   q_exits, otherThanQuery>>

\* The deaths are exhausted: return.
KillsReturn ==
    /\ q_pc = "loop"
    /\ q_k >= Len(death_indices)
    /\ q_pc' = "done"
    /\ UNCHANGED <<q_df, q_attacker_df, q_attacker_given, q_states,
                   q_trigger_indices, q_window_frames, q_k, q_entries,
                   q_exits, q_rows, otherThanQuery>>

NextKills == KillsIterate \/ KillsReturn

SpecKills == InitKills /\ [][NextKills]_vars

---------------------------------------------------------------------------
(* find_state_entries and find_state_exits (query.py) *)

\* df["state"].isin(states), on row k (from 1); a missing state is in no set.
in_states(k) == ~isnan(q_df[k].state) /\ q_df[k].state \in q_states

\* The rows (from 1) of the table, in their order.
QueryRowNumbers == [k \in 1..Len(q_df) |-> k]

\* df[mask]: the rows ks of the mask in their order, each with its index.
QueryRowsAt(ks) ==
    [n \in 1..Len(ks) |->
        [index |-> ks[n] - 1, frame |-> q_df[ks[n]].frame,
         state |-> q_df[ks[n]].state]]

\* in_states.shift(1, fill_value=False), on row k.
shifted_down(k) == IF k > 1 THEN in_states(k - 1) ELSE FALSE

\* in_states.shift(-1, fill_value=False), on row k.
shifted_up(k) == IF k < Len(q_df) THEN in_states(k + 1) ELSE FALSE

\* Faulty variant of find_state_entries: the first row is never an entry.
find_state_entries_NotFirst ==
    QueryRowsAt(SelectSeq(QueryRowNumbers,
        LAMBDA k : k > 1 /\ in_states(k) /\ ~in_states(k - 1)))

find_state_entries ==
    QueryRowsAt(SelectSeq(QueryRowNumbers,
        LAMBDA k : in_states(k) /\ ~shifted_down(k)))

\* Faulty variant of find_state_exits: the last row is never an exit.
find_state_exits_NotLast ==
    QueryRowsAt(SelectSeq(QueryRowNumbers,
        LAMBDA k : k < Len(q_df) /\ in_states(k) /\ ~in_states(k + 1)))

find_state_exits ==
    QueryRowsAt(SelectSeq(QueryRowNumbers,
        LAMBDA k : in_states(k) /\ ~shifted_up(k)))

(* The inputs *)

\* The state of a row: two states of hitstun, standing, or missing.
QueryStates == {76, 80, 14, NaN}

\* The table of the states sts: a row on every frame from -123.
QueryTable(sts) ==
    [k \in 1..Len(sts) |->
        [frame |-> k - 124, state |-> sts[k], stocks |-> 4, percent |-> 0,
         last_attack_landed |-> 0]]

(* The state machine: the two functions are called on one table, in either *)
(* order                                                                   *)

InitStates ==
    /\ \E n \in 0..MaxQueryRows :
         \E sts \in [1..n -> QueryStates] : q_df = QueryTable(sts)
    /\ q_states = DAMAGE_STATES \ {357}
    /\ q_attacker_df = <<>>
    /\ q_attacker_given = FALSE
    /\ q_trigger_indices = <<>>
    /\ q_window_frames = 0
    /\ q_pc = "call"
    /\ q_k = 0
    /\ q_entries = <<>>
    /\ q_exits = <<>>
    /\ q_rows = <<>>
    /\ OnlyQuery

\* find_state_entries(df, states)
FindStateEntries ==
    /\ q_pc \in {"call", "exits"}
    /\ q_entries' = find_state_entries
    /\ q_pc' = IF q_pc = "call" THEN "entries" ELSE "done"
    /\ UNCHANGED <<q_df, q_attacker_df, q_attacker_given, q_states,
                   q_trigger_indices, q_window_frames, q_k, q_exits, q_rows,
                   otherThanQuery>>

\* find_state_exits(df, states)
FindStateExits ==
    /\ q_pc \in {"call", "entries"}
    /\ q_exits' = find_state_exits
    /\ q_pc' = IF q_pc = "call" THEN "exits" ELSE "done"
    /\ UNCHANGED <<q_df, q_attacker_df, q_attacker_given, q_states,
                   q_trigger_indices, q_window_frames, q_k, q_entries, q_rows,
                   otherThanQuery>>

NextStates == FindStateEntries \/ FindStateExits

SpecStates == InitStates /\ [][NextStates]_vars

---------------------------------------------------------------------------
(* next_action_after (query.py) *)

\* The row appended for the action on row j (from 0) after the trigger on
\* row p.
action_row(p, j) ==
    [trigger_frame |-> q_df[p + 1].frame,
     action_frame |-> q_df[j + 1].frame,
     state |-> q_df[j + 1].state,
     frames_after |-> q_df[j + 1].frame - q_df[p + 1].frame]

\* Faulty variant of action_scan: the distance in frames is not looked at.
RECURSIVE action_scan_AnyDistance(_, _, _, _)
action_scan_AnyDistance(rs, p, j, stop) ==
    IF j >= stop THEN rs
    ELSE IF q_df[j + 1].state \in q_states THEN Append(rs, action_row(p, j))
    ELSE action_scan_AnyDistance(rs, p, j + 1, Len(q_df))

\* The inner loop `for j in range(pos + 1, stop)` from row j on: the results
\* after it.
RECURSIVE action_scan(_, _, _, _)
action_scan(rs, p, j, stop) ==
    IF j >= stop THEN rs
    ELSE IF q_df[j + 1].frame - q_df[p + 1].frame > q_window_frames THEN rs
    ELSE IF q_df[j + 1].state \in q_states THEN Append(rs, action_row(p, j))
    ELSE action_scan(rs, p, j + 1, stop)

\* Faulty variant of next_action_body, with action_scan_AnyDistance.
next_action_body_AnyDistance(rs, idx) ==
    action_scan_AnyDistance(rs, idx, idx + 1, Len(q_df))

\* The body of `for idx in trigger_indices` (lines 67-84); the index of the
\* table is the position of the row.
next_action_body(rs, idx) ==
    LET p == idx   \* pos = df.index.get_loc(idx)
        stop == IF p + q_window_frames + 1 < Len(q_df)
                THEN p + q_window_frames + 1 ELSE Len(q_df)
    IN  action_scan(rs, p, p + 1, stop)

(* The inputs *)

\* The window asked for: two frames, or the default.
ActionWindows == {2, 300}

\* Frames from one row to the next.
ActionSteps == {1, 2}

\* The state of a row: a tech in place, standing, or missing.
ActionStates == {TECH_IN_PLACE, 14, NaN}

\* The table of the steps st (one per row after the first) and the states
\* sts.
RECURSIVE ActionFrames(_)
ActionFrames(st) ==
    IF Len(st) = 0 THEN <<-123>>
    ELSE LET fs == ActionFrames(SubSeq(st, 1, Len(st) - 1))
         IN  Append(fs, fs[Len(fs)] + st[Len(st)])

ActionTable(st, sts) ==
    [k \in 1..Len(sts) |->
        [frame |-> ActionFrames(st)[k], state |-> sts[k], stocks |-> 4,
         percent |-> 0, last_attack_landed |-> 0]]

\* The trigger rows: none, one row, or two rows in their order.
ActionTriggers(n) ==
    {<<>>} \cup {<<a>> : a \in 0..(n - 1)}
           \cup {<<ab[1], ab[2]>> : ab \in
                    {p \in (0..(n - 1)) \X (0..(n - 1)) : p[1] < p[2]}}

(* The state machine *)

InitNextAction ==
    /\ \E n \in 1..MaxQueryRows :
         \E st \in [1..(n - 1) -> ActionSteps] :
           \E sts \in [1..n -> ActionStates] :
              /\ q_df = ActionTable(st, sts)
              /\ q_trigger_indices \in ActionTriggers(n)
    /\ q_states = {TECH_IN_PLACE, TECH_ROLL_F, TECH_ROLL_B}
    /\ q_window_frames \in ActionWindows
    /\ q_attacker_df = <<>>
    /\ q_attacker_given = FALSE
    /\ q_pc = "loop"
    /\ q_k = 0
    /\ q_entries = <<>>
    /\ q_exits = <<>>
    /\ q_rows = <<>>
    /\ OnlyQuery

\* One iteration of `for idx in trigger_indices`.
NextActionIterate ==
    /\ q_pc = "loop"
    /\ q_k < Len(q_trigger_indices)
    /\ q_rows' = next_action_body(q_rows, q_trigger_indices[q_k + 1])
    /\ q_k' = q_k + 1
    /\ UNCHANGED <<q_df, q_attacker_df, q_attacker_given, q_states,
                   q_trigger_indices, q_window_frames, q_pc, q_entries,
                   q_exits, otherThanQuery>>

\* The triggers are exhausted: return.
NextActionReturn ==
    /\ q_pc = "loop"
    /\ q_k >= Len(q_trigger_indices)
    /\ q_pc' = "done"
    /\ UNCHANGED <<q_df, q_attacker_df, q_attacker_given, q_states,
                   q_trigger_indices, q_window_frames, q_k, q_entries,
                   q_exits, q_rows, otherThanQuery>>

NextNextAction == NextActionIterate \/ NextActionReturn

SpecNextAction == InitNextAction /\ [][NextNextAction]_vars

---------------------------------------------------------------------------
(* detect_wavedashes (techniques.py), on the table of one player           *)
(* A velocity is a fixed-point number in ten-thousandths (14996 is 1.4996), *)
(* a position one in thousandths; the fields velx and slide_vel of an event *)
(* are in thousandths, pos_x is in hundredths.                              *)

JUMPSQUAT == 24
AIRDODGE == 236
GROUNDED == {14, 20, 21, 22, 23, 39, 40, 41}

\* _MIN_SLIDE_VEL, 0.5
MIN_SLIDE_VEL == 5000

\* `airdodge_i is None`, `land_i is None`
NoIndex == -1

\* round(x, ndigits) that drops the last digit of the fixed-point number x;
\* a tie goes to the even neighbour.
round_digit(x) == IF x < 0 THEN 0 - Round1(0 - x) ELSE Round1(x)

\* The columns of player_df, with the indices of the code (from 0); a
\* missing state is 0 (`_s`), a missing direction 1.0, a missing position or
\* velocity 0 (fillna).
wd_s(idx) == IF isnan(wd_df[idx + 1].state) THEN 0 ELSE wd_df[idx + 1].state
frames_arr(idx) == wd_df[idx + 1].frame
posx_arr(idx) == wd_df[idx + 1].position_x
direction_arr(idx) == wd_df[idx + 1].direction
velx_arr(idx) == wd_df[idx + 1].velocity_self_x_ground

wd_n == Len(wd_df)

wd_min(a, b) == IF a < b THEN a ELSE b

\* `while j < min(i + 15, n) and _s(j) == _JUMPSQUAT`: js_end_i when the
\* inner loop stands at j.
RECURSIVE js_end_scan(_, _, _)
js_end_scan(j, stop, js_end_i) ==
    IF j < stop /\ wd_s(j) = JUMPSQUAT THEN js_end_scan(j + 1, stop, j)
    ELSE js_end_i

\* first_air_i for the jump startup entered on row i (lines 232-237).
first_air_of(i_) == js_end_scan(i_ + 1, wd_min(i_ + 15, wd_n), i_) + 1

\* `for j in range(first_air_i, ...)` from j on: the first air dodge, none
\* after a grounded row or at the end of the window.
RECURSIVE airdodge_scan(_, _)
airdodge_scan(j, stop) ==
    IF j >= stop THEN NoIndex
    ELSE IF wd_s(j) = AIRDODGE THEN j
    ELSE IF wd_s(j) \in GROUNDED THEN NoIndex
    ELSE airdodge_scan(j + 1, stop)

\* Faulty variant of find_airdodge: the window holds seven rows.
find_airdodge_Seven(first_air_i) ==
    airdodge_scan(first_air_i, wd_min(first_air_i + 7, wd_n))

\* airdodge_i (lines 240-247)
find_airdodge(first_air_i) ==
    airdodge_scan(first_air_i, wd_min(first_air_i + 6, wd_n))

\* `for k in range(airdodge_i + 1, ...)` from k on: the first grounded row.
RECURSIVE land_scan(_, _)
land_scan(k, stop) ==
    IF k >= stop THEN NoIndex
    ELSE IF wd_s(k) \in GROUNDED THEN k
    ELSE land_scan(k + 1, stop)

\* land_i (lines 256-261)
find_landing(airdodge_i) ==
    land_scan(airdodge_i + 1, wd_min(airdodge_i + 20, wd_n))

\* angle_cat of the landing speed (lines 283-288)
angle_cat_of(slide_vel) ==
    IF slide_vel >= 15000 THEN "flat"
    ELSE IF slide_vel >= 8000 THEN "moderate"
    ELSE "steep"

\* The row appended for the wavedash entered on row js_start_i (lines
\* 273-302); opp_df is not given, toward_opp stays None.
wavedash_row(js_start_i, first_air_i, airdodge_i, land_i) ==
    LET vx == velx_arr(land_i)
        facing == direction_arr(js_start_i)
        late_frames == airdodge_i - first_air_i
    IN  [frame       |-> frames_arr(js_start_i),
         end_frame   |-> frames_arr(land_i),
         pos_x       |-> round_digit(posx_arr(land_i)),
         velx        |-> round_digit(vx),
         slide_vel   |-> round_digit(abs(vx)),
         late_frames |-> late_frames,
         is_late     |-> late_frames > 0,
         facing      |-> facing,
         forward     |-> (vx > 0 /\ facing > 0) \/ (vx < 0 /\ facing < 0),
         toward_opp  |-> None,
         angle_cat   |-> angle_cat_of(abs(vx))]

\* What an iteration of the main scan does: the branch taken, the index the
\* scan goes on with, and the rows.

\* No entry into jump startup on the row (lines 225-227).
Advance(rs, i_) == [kind |-> "advance", next |-> i_ + 1, rows |-> rs]

\* Faulty variant of NoAirdodge: the scan goes on from the last row of the
\* jump startup.
NoAirdodge_FromJumpsquat(rs, first_air_i) ==
    [kind |-> "no airdodge", next |-> first_air_i - 1, rows |-> rs]

\* `if airdodge_i is None:` (lines 249-251)
NoAirdodge(rs, first_air_i) ==
    [kind |-> "no airdodge", next |-> first_air_i, rows |-> rs]

\* `if land_i is None:` (lines 263-265)
NoLanding(rs, airdodge_i) ==
    [kind |-> "no landing", next |-> airdodge_i + 1, rows |-> rs]

\* `if abs(vx) < _MIN_SLIDE_VEL:` (lines 268-271)
Stall(rs, land_i) == [kind |-> "stall", next |-> land_i + 1, rows |-> rs]

\* Faulty variant of Emit: the scan goes on from the row after the air dodge.
Emit_FromAirdodge(rs, js_start_i, first_air_i, airdodge_i, land_i) ==
    [kind |-> "event", next |-> airdodge_i + 1,
     rows |-> Append(rs, wavedash_row(js_start_i, first_air_i, airdodge_i,
                                      land_i))]

\* The wavedash is appended (lines 273-303).
Emit(rs, js_start_i, first_air_i, airdodge_i, land_i) ==
    [kind |-> "event", next |-> land_i + 1,
     rows |-> Append(rs, wavedash_row(js_start_i, first_air_i, airdodge_i,
                                      land_i))]

\* One iteration of `while i < n` (lines 223-303) with the scan on row i_.
wd_body(rs, i_) ==
    IF wd_s(i_) # JUMPSQUAT \/ wd_s(i_ - 1) = JUMPSQUAT THEN Advance(rs, i_)
    ELSE
        LET first_air_i == first_air_of(i_)
            airdodge_i == find_airdodge(first_air_i)
            land_i == find_landing(airdodge_i)
        IN  IF airdodge_i = NoIndex THEN NoAirdodge(rs, first_air_i)
            ELSE IF land_i = NoIndex THEN NoLanding(rs, airdodge_i)
            ELSE IF abs(velx_arr(land_i)) < MIN_SLIDE_VEL
                 THEN Stall(rs, land_i)
            ELSE Emit(rs, i_, first_air_i, airdodge_i, land_i)

(* The inputs *)

\* Most jumps of one timeline.
MaxJumps == 2

\* The landing velocities: either side of each threshold, where the value
\* and its rounding to three digits fall apart, a slide to the left, none.
LandVels == {4996, 5000, 7996, 8000, 14996, 15000, -9000, 0}

\* The jumps a timeline is made of.  js rows of jump startup (the longest
\* one exceeds the cap of the inner loop), late airborne rows, and then:
\* an air dodge and a landing `fall` rows after it (no landing: 0) at velx,
\* a landing without an air dodge ("lands"), or nothing ("ends").
WdJumps ==
    [js : {1, 15, 16}, late : {0}, dodge : {"airdodge"}, fall : {1},
     velx : {-9000}]
    \cup [js : {1}, late : {5, 6}, dodge : {"airdodge"}, fall : {1},
          velx : {-9000}]
    \cup [js : {1}, late : {0, 5}, dodge : {"lands"}, fall : {1},
          velx : {-9000}]
    \cup [js : {1}, late : {0}, dodge : {"airdodge"}, fall : {0, 19, 20},
          velx : {15000}]
    \cup [js : {1}, late : {0}, dodge : {"airdodge"}, fall : {1},
          velx : LandVels]
    \cup [js : {1, 16}, late : {0}, dodge : {"ends"}, fall : {0}, velx : {0}]

\* k copies of x.
Rep(x, k) == [j \in 1..k |-> x]

\* The rows of one jump, facing d: [state, velx, direction].  The player is
\* in JUMP_F (25) in the air, in the air dodge (236) and its landing lag
\* (LANDING_FALL_SPECIAL, 43) up to the first grounded row, WAIT (14).
JumpCells(a, d) ==
    LET cell(s, v) == [state |-> s, velx |-> v, direction |-> d]
    IN  Rep(cell(JUMPSQUAT, 0), a.js) \o Rep(cell(25, 0), a.late) \o
        (CASE a.dodge = "lands" -> <<cell(14, a.velx)>>
           [] a.dodge = "ends" -> <<>>
           [] a.dodge = "airdodge" /\ a.fall = 0 -> <<cell(AIRDODGE, 0)>>
           [] OTHER -> <<cell(AIRDODGE, 0)>> \o Rep(cell(43, 0), a.fall - 1)
                       \o <<cell(14, a.velx)>>)

\* The rows of the jumps js, after a first row standing; the player turns
\* round between the jumps.
RECURSIVE WdCells(_)
WdCells(js) ==
    IF Len(js) = 0 THEN <<[state |-> 14, velx |-> 0, direction |-> 1]>>
    ELSE WdCells(SubSeq(js, 1, Len(js) - 1)) \o
         JumpCells(js[Len(js)], IF Len(js) % 2 = 1 THEN 1 ELSE -1)

\* The player's table: consecutive frames from -123, the player 0.125 to
\* the right on each.
WdTable(cells) ==
    [k \in 1..Len(cells) |->
        [frame |-> k - 124, state |-> cells[k].state,
         direction |-> cells[k].direction, position_x |-> 125 * k,
         velocity_self_x_ground |-> cells[k].velx]]

(* The state machine *)

InitWavedashes ==
    /\ \E m \in 0..MaxJumps :
         \E js \in [1..m -> WdJumps] : wd_df = WdTable(WdCells(js))
    /\ wd_i = 1
    /\ wd_pc = "scan"
    /\ wd_rows = <<>>
    /\ OnlyWavedash

\* One iteration of `while i < n`.
WdIterate ==
    /\ wd_pc = "scan"
    /\ wd_i < wd_n
    /\ LET r == wd_body(wd_rows, wd_i)
       IN  /\ wd_i' = r.next
           /\ wd_rows' = r.rows
    /\ UNCHANGED <<wd_df, wd_pc, otherThanWavedash>>

\* `i < n` fails: return.
WdReturn ==
    /\ wd_pc = "scan"
    /\ wd_i >= wd_n
    /\ wd_pc' = "done"
    /\ UNCHANGED <<wd_df, wd_i, wd_rows, otherThanWavedash>>

NextWavedashes == WdIterate \/ WdReturn

SpecWavedashes == InitWavedashes /\ [][NextWavedashes]_vars

---------------------------------------------------------------------------
(* Vocabulary of the properties *)

Gaps == {STRICTNESS_PRESETS[s] : s \in DOMAIN STRICTNESS_PRESETS}

\* The scan stands before row i of the defender's table.
AtRow == pc = "loop" /\ i < Len(defender_df)

\* Row k and the row before it both carry a percent.
PctPresent(k) == k >= 1 /\ ~isnan(pct(k)) /\ ~isnan(pct(k - 1))

\* The defender's percent is greater on row k than on the row before.
IsHit(k) == PctPresent(k) /\ pct(k) > pct(k - 1)

\* The defender's stocks are lower on row k than on the row before.
StockLoss(k) ==
    /\ k >= 1
    /\ ~isnan(stocks(k))
    /\ ~isnan(stocks(k - 1))
    /\ stocks(k) < stocks(k - 1)

\* The locals before the scan took in row k.
Before(k) == Scan(k - 1, gap_frames)

RECURSIVE TotalHits(_)
TotalHits(cs) ==
    IF Len(cs) = 0 THEN 0 ELSE cs[1].num_hits + TotalHits(Tail(cs))

KilledCount(cs) == Cardinality({n \in 1..Len(cs) : cs[n].killed})

\* cs2 is cs1 with one more combo at its end.
Appended(cs1, cs2) ==
    /\ Len(cs2) = Len(cs1) + 1
    /\ SubSeq(cs2, 1, Len(cs1)) = cs1

\* The row of the defender's table that carries frame f.
RowOf(f) == CHOOSE k \in 0..(Len(defender_df) - 1) : frames(k) = f

---------------------------------------------------------------------------
(* C1: the retroactive kill *)

\* Combo n of the list was appended by the gap rule: it entered the list
\* with killed = FALSE on a row before row i.
ClosedByGapRule(n) ==
    \E k \in 1..(i - 1) :
        LET s == Scan(k, gap_frames)
        IN  Len(s.combos) >= n /\ ~s.combos[n].killed

\* The scan stands before a stock-loss row, no combo is open, and the last
\* combo of the list was closed by the gap rule at most 150 frames before.
C1_Case ==
    /\ AtRow
    /\ ~in_combo
    /\ combos # <<>>
    /\ ClosedByGapRule(Len(combos))
    /\ StockLoss(i)
    /\ frames(i) - combos[Len(combos)].end_frame <= KILL_WINDOW

\* The row marks the last combo, and nothing else: it is killed, it ends at
\* the stock-loss frame, and the list holds one killed combo more.
C1_Effect ==
    /\ combos' = [combos EXCEPT ![Len(combos)].killed = TRUE,
                                ![Len(combos)].end_frame = frames(i)]
    /\ KilledCount(combos') = KilledCount(combos) + 1
    /\ ~in_combo'

\* C1 as claimed: a stock loss after a combo closed by the gap rule, with no
\* later combo in between and within 150 frames of the combo's end_frame,
\* marks that combo killed, moves its end_frame to the stock-loss frame, and
\* marks exactly one combo killed.
C1_RetroactiveKill_AsClaimed == [][C1_Case => C1_Effect]_vars

\* C1 as amended: the same, for a stock-loss row that the scan evaluates
\* (it and the row before carry a percent), that is no hit itself, and a
\* last combo that is not marked killed yet.
C1_RetroactiveKill ==
    [][(/\ C1_Case
        /\ PctPresent(i)
        /\ ~IsHit(i)
        /\ ~combos[Len(combos)].killed) => C1_Effect]_vars

\* C1, the case: the row just scanned was a stock loss after the last combo
\* had been closed by the gap rule, and that combo is now killed and ends
\* at the stock-loss frame.
C1_Witness ==
    /\ pc = "loop"
    /\ i >= 3
    /\ LET k == i - 1
           b == Before(k)
       IN  /\ ~b.in_combo
           /\ b.combos # <<>>
           /\ ~b.combos[Len(b.combos)].killed
           /\ StockLoss(k) /\ PctPresent(k) /\ ~IsHit(k)
           /\ Len(combos) = Len(b.combos)
           /\ combos[Len(combos)].killed
           /\ combos[Len(combos)].end_frame = frames(k)
           /\ combos[Len(combos)].end_frame > b.combos[Len(b.combos)].end_frame

---------------------------------------------------------------------------
(* C2: gap-tolerance monotonicity *)

\* The gap values the result is compared with: the presets and the values
\* next to the frame distances of the inputs.
ComparedGaps == Gaps \cup {1, 61, 122}

\* C2: a greater gap_frames on the same two tables never gives more combos
\* and never fewer hits in total: the result of the scan is compared with
\* the result for every other gap value.
C2_GapMonotone ==
    pc = "done" =>
        \A g \in ComparedGaps :
            LET other == detect_combos(g)
            IN  /\ gap_frames <= g =>
                     /\ Len(other) <= Len(combos)
                     /\ TotalHits(other) >= TotalHits(combos)
                /\ g <= gap_frames =>
                     /\ Len(combos) <= Len(other)
                     /\ TotalHits(combos) >= TotalHits(other)

\* C2, the case: the scan has returned and a greater preset merges combos
\* that this gap keeps apart.
C2_Witness ==
    /\ pc = "done"
    /\ Len(combos) >= 2
    /\ \E g \in Gaps : g > gap_frames /\ Len(detect_combos(g)) < Len(combos)

---------------------------------------------------------------------------
(* C3: order and disjointness *)

\* C3: the combos are in the order of their start_frame, and each ends
\* strictly before the next starts.
C3_OrderedDisjoint ==
    \A n \in 1..(Len(combos) - 1) :
        /\ combos[n].start_frame < combos[n + 1].start_frame
        /\ combos[n].end_frame < combos[n + 1].start_frame

\* C3, the case: a combo whose end was moved by a retroactive kill is
\* followed by a later combo.
C3_Witness ==
    /\ pc = "done"
    /\ \E n \in 1..(Len(combos) - 1) :
          /\ combos[n].killed
          /\ \E k \in 1..(Len(defender_df) - 1) :
                LET s == Scan(k, gap_frames)
                IN  /\ Len(s.combos) = n
                    /\ ~s.combos[n].killed
                    /\ s.combos[n].end_frame < combos[n].end_frame

---------------------------------------------------------------------------
(* C4: damage is not negative *)

\* C4: every combo has damage >= 0.
C4_DamageNonNegative == \A n \in 1..Len(combos) : combos[n].damage >= 0

---------------------------------------------------------------------------
(* C5: damage and the two percents *)

\* C5: the damage of a combo is its end_pct minus its start_pct, start_pct
\* is the (rounded) percent of the row before the combo's first hit and
\* end_pct the (rounded) percent of the row of its last hit.
C5_DamageIsPercentDifference ==
    \A n \in 1..Len(combos) :
        LET c == combos[n]
            first == RowOf(c.hit_frames[1])
            last == RowOf(c.hit_frames[Len(c.hit_frames)])
        IN  /\ c.damage = c.end_pct - c.start_pct
            /\ c.start_pct = Round1(pct(first - 1))
            /\ c.end_pct = Round1(pct(last))

\* C5, the case: a returned combo of several hits that starts above zero,
\* whose two rounded percents do not differ by the rounded difference.
C5_Witness ==
    /\ pc = "done"
    /\ \E n \in 1..Len(combos) :
          LET c == combos[n]
              first == RowOf(c.hit_frames[1])
              last == RowOf(c.hit_frames[Len(c.hit_frames)])
          IN  /\ c.start_pct > 0
              /\ c.damage > 0
              /\ c.damage # Round1(pct(last) - pct(first - 1))

---------------------------------------------------------------------------
(* C6: a combo does not end before it starts *)

\* C6: every combo has start_frame <= end_frame, however it was closed.
C6_StartNotAfterEnd ==
    \A n \in 1..Len(combos) : combos[n].start_frame <= combos[n].end_frame

\* C6, the case: the scan has returned a killed combo that ends after its
\* start and a combo of one hit, not killed, that ends on the frame it
\* starts on.
C6_Witness ==
    /\ pc = "done"
    /\ \E n \in 1..Len(combos) :
          combos[n].killed /\ combos[n].start_frame < combos[n].end_frame
    /\ \E n \in 1..Len(combos) :
          ~combos[n].killed /\ combos[n].start_frame = combos[n].end_frame

---------------------------------------------------------------------------
(* C7: the hits of a combo *)

\* C7: every combo has at least one hit, as many hits as entries of
\* hit_frames, and starts at the first of them.
C7_HitsCounted ==
    \A n \in 1..Len(combos) :
        /\ combos[n].num_hits >= 1
        /\ combos[n].num_hits = Len(combos[n].hit_frames)
        /\ combos[n].hit_frames[1] = combos[n].start_frame

\* C7, the case: a combo of more than one hit is in the list.
C7_Witness == \E n \in 1..Len(combos) : combos[n].num_hits >= 2

---------------------------------------------------------------------------
(* C8: every hit is in exactly one combo *)

\* The places (combo, position) of the result whose hit frame is f.
PlacesOf(f) ==
    {p \in (1..Len(combos)) \X (1..Len(defender_df)) :
        /\ p[2] <= Len(combos[p[1]].hit_frames)
        /\ combos[p[1]].hit_frames[p[2]] = f}

\* The frames of the rows on which the defender's percent increased.
HitFrames == {frames(k) : k \in {j \in 1..(Len(defender_df) - 1) : IsHit(j)}}

\* C8: when the scan has returned, each frame of a percent increase is a
\* hit frame of exactly one combo, no other frame is a hit frame, and the
\* step that returns closes an open combo with killed = FALSE.
C8_HitsCovered ==
    /\ [](pc = "done" =>
            /\ \A f \in HitFrames : Cardinality(PlacesOf(f)) = 1
            /\ \A n \in 1..Len(combos) :
                  \A m \in 1..Len(combos[n].hit_frames) :
                      combos[n].hit_frames[m] \in HitFrames)
    /\ [][(pc = "loop" /\ pc' = "done" /\ in_combo) =>
            /\ Appended(combos, combos')
            /\ ~combos'[Len(combos')].killed
            /\ combos'[Len(combos')].start_frame = start_frame
            /\ combos'[Len(combos')].end_frame = last_hit_frame]_vars

\* C8, the case: the scan has returned several combos, the last of them the
\* one that was open at the end of the data.
C8_Witness ==
    /\ pc = "done"
    /\ Len(combos) >= 2
    /\ Scan(Len(defender_df) - 1, gap_frames).in_combo
    /\ ~combos[Len(combos)].killed

---------------------------------------------------------------------------
(* C9: the gap rule *)

\* The row closes the open combo by the gap rule.
ClosedByGap ==
    /\ Appended(combos, combos')
    /\ ~combos'[Len(combos')].killed
    /\ combos'[Len(combos')].end_frame = last_hit_frame
    /\ combos'[Len(combos')].start_frame = start_frame
    /\ ~in_combo'

\* What the gap rule says of the row the scan stands before, a combo being
\* open: a hit joins the combo, a frame `quiet` for the rule closes it when
\* it is more than gap_frames after the last hit and leaves it open
\* otherwise.
GapRule(quiet) ==
    (AtRow /\ in_combo) =>
        /\ IsHit(i) =>
              /\ num_hits' = num_hits + 1
              /\ start_frame' = start_frame
              /\ last_hit_frame' = frames(i)
        /\ (quiet /\ frames(i) - last_hit_frame > gap_frames) => ClosedByGap
        /\ (quiet /\ frames(i) - last_hit_frame <= gap_frames) =>
              combos' = combos /\ in_combo'

\* The example of the rule: one combo from 105 to 141, two hits, 30.0%.
GapExample ==
    (/\ pc = "done"
     /\ defender_df = GapScenario.defender
     /\ attacker_df = GapScenario.attacker
     /\ gap_frames = 45) =>
        /\ Len(combos) = 1
        /\ combos[1].start_frame = 105
        /\ combos[1].end_frame = 141
        /\ combos[1].num_hits = 2
        /\ combos[1].damage = 300
        /\ ~combos[1].killed

\* C9 as claimed: every frame that is no hit counts for the gap rule.
C9_GapRule_AsClaimed == [][GapRule(~IsHit(i))]_vars /\ []GapExample

\* C9 as amended: a frame counts for the gap rule when it is no hit, it and
\* the row before carry a percent, and no stock loss is seen on it.
C9_GapRule ==
    [][GapRule(PctPresent(i) /\ ~IsHit(i) /\ ~StockLoss(i))]_vars
    /\ []GapExample

\* C9, the case: the row just scanned closed the combo by the gap rule,
\* after an earlier quiet row within the gap had left it open.
C9_Witness ==
    /\ pc = "loop"
    /\ i >= 4
    /\ LET k == i - 1
           b == Before(k)
       IN  /\ b.in_combo
           /\ Before(k - 1).in_combo
           /\ PctPresent(k) /\ ~IsHit(k) /\ ~StockLoss(k)
           /\ PctPresent(k - 1) /\ ~IsHit(k - 1)
           /\ frames(k - 1) - b.last_hit_frame <= gap_frames
           /\ frames(k) - b.last_hit_frame > gap_frames
           /\ ~in_combo
           /\ Len(combos) = Len(b.combos) + 1
           /\ ~combos[Len(combos)].killed
           /\ combos[Len(combos)].end_frame = b.last_hit_frame

---------------------------------------------------------------------------
(* C10: a stock lost while a combo is open *)

\* The row closes the open combo as a kill at the frame of the row.
ClosedAsKill ==
    /\ Appended(combos, combos')
    /\ combos'[Len(combos')].killed
    /\ combos'[Len(combos')].end_frame = frames(i)
    /\ combos'[Len(combos')].start_frame = start_frame
    /\ ~in_combo'

\* C10 as claimed: a row on which the stocks are lower than on the row
\* before (both present) closes an open combo as a kill at its frame.
C10_StockLossCloses_AsClaimed ==
    [][(AtRow /\ in_combo /\ StockLoss(i)) => ClosedAsKill]_vars

\* C10 as amended: the same, for a row that carries a percent, as does the
\* row before.
C10_StockLossCloses ==
    [][(AtRow /\ in_combo /\ StockLoss(i) /\ PctPresent(i)) => ClosedAsKill]_vars

\* C10, the case: the row just scanned was a stock loss more than
\* gap_frames after the last hit of the open combo, and the combo was
\* closed as a kill at that frame.
C10_Witness ==
    /\ pc = "loop"
    /\ i >= 3
    /\ LET k == i - 1
           b == Before(k)
       IN  /\ b.in_combo
           /\ StockLoss(k) /\ PctPresent(k) /\ ~IsHit(k)
           /\ frames(k) - b.last_hit_frame > gap_frames
           /\ ~in_combo
           /\ Len(combos) = Len(b.combos) + 1
           /\ combos[Len(combos)].killed
           /\ combos[Len(combos)].end_frame = frames(k)

---------------------------------------------------------------------------
(* C11: the move of a hit *)

\* The rows of the attacker's table that carry frame f.
AttackerRowsAt(f) == {k \in 1..Len(attacker_df) : attacker_df[k].frame = f}

\* The move the attacker's table holds at exactly frame f; 0 when it has no
\* row there or the value is null.
MoveAt(f) ==
    IF AttackerRowsAt(f) = {} THEN 0
    ELSE LET v == attacker_df[CHOOSE k \in AttackerRowsAt(f) : TRUE]
                      .last_attack_landed
         IN  IF isnan(v) THEN 0 ELSE v

\* C11: the move of each hit of each combo is the attacker's
\* last_attack_landed at exactly the defender's frame of the hit, 0 (unknown)
\* when the attacker has no row at that frame or the value is null;
\* started_by is the move of the first hit, ended_by the move of the last.
C11_MoveAttribution ==
    \A n \in 1..Len(combos) :
        LET c == combos[n]
        IN  /\ Len(c.hit_moves) = Len(c.hit_frames)
            /\ \A m \in 1..Len(c.hit_frames) :
                   c.hit_moves[m] = move_name(MoveAt(c.hit_frames[m]))
            /\ c.started_by = c.hit_moves[1]
            /\ c.ended_by = c.hit_moves[Len(c.hit_moves)]

\* C11, the case: a returned combo of three hits; the attacker has a move at
\* the frame of the first, no row at the frame of the second though it has
\* one with a move on the frame before, and a null at the frame of the last.
C11_Witness ==
    /\ pc = "done"
    /\ \E n \in 1..Len(combos) :
          LET c == combos[n]
          IN  /\ c.num_hits = 3
              /\ c.started_by = move_name(14) \/ c.started_by = move_name(10)
              /\ AttackerRowsAt(c.hit_frames[2]) = {}
              /\ MoveAt(c.hit_frames[1]) # 0
              /\ c.hit_moves[2] = move_name(0)
              /\ AttackerRowsAt(c.hit_frames[3]) # {}
              /\ c.ended_by = move_name(0)
              /\ "last_attack_landed" \in DOMAIN defender_df[1]

---------------------------------------------------------------------------
(* C12: a missed tech gives at most one option, the first that qualifies *)

\* Row k shows one of the options after a missed tech: a getup, a getup
\* attack, a roll forward or backward, a hit while down, a fall in the air.
Qualifying(k) ==
    LET s == my_states(k)
    IN  \/ s \in GETUP \cup GETUP_ATTACK \cup DOWN_ROLL_F \cup DOWN_ROLL_B
        \/ s \in HIT_DOWN \cup DAMAGE_STATES
        \/ s \in FALL_STATES /\ ~isnan(airborne_vals(k)) /\ airborne_vals(k) # 0

\* C12: the step that handles a bounce entry handles an entry into state 183
\* or 191 and appends at most one event; the frame of the event is after the
\* frame of the bounce and is the frame of the first row after the bounce
\* that qualifies, so that no later row of the knockdown gives an event.
C12_FirstQualifying ==
    [][(phase = "missed" /\ phase' = "missed") =>
          /\ my_states(pos') \in {183, 191}
          /\ pos' = 0 \/ my_states(pos' - 1) \notin {183, 191}
          /\ \A k \in RowsAfter(pos) :
                (k < pos' /\ my_states(k) \in {183, 191}) =>
                    (k > 0 /\ my_states(k - 1) \in {183, 191})
          /\ \/ rows' = rows
             \/ /\ Appended(rows, rows')
                /\ rows'[Len(rows')].frame > my_frames(pos')
                /\ \E j \in RowsAfter(pos') :
                      /\ my_frames(j) = rows'[Len(rows')].frame
                      /\ Qualifying(j)
                      /\ \A k \in RowsAfter(pos') : k < j => ~Qualifying(k)]_vars

\* C12, the case: the bounce entry handled last was followed by a lying row,
\* its event is on a later row, and a row after that qualifies as well.
C12_Witness ==
    /\ phase = "missed"
    /\ pos >= 0
    /\ Len(my_df) >= pos + 4
    /\ my_states(pos + 1) \in MISSED_WAIT
    /\ Qualifying(pos + 2)
    /\ Qualifying(pos + 3)
    /\ rows # <<>>
    /\ rows[Len(rows)].frame = my_frames(pos + 2)

---------------------------------------------------------------------------
(* C13: the options of a knockdown *)

OPTIONS ==
    {"tech in place", "tech toward", "tech away", "getup", "getup attack",
     "roll toward", "roll away", "slideoff", "hit while down"}

\* C13: every event carries one of the nine options, from either loop; the
\* step that handles a tech entry in state 199 appends 'tech in place', and
\* one in state 200 or 201 appends 'tech toward' or 'tech away' (nothing
\* when the opponent has no row on the frame).
C13_Options ==
    /\ [](\A n \in 1..Len(rows) : rows[n].option \in OPTIONS)
    /\ [][(phase = "tech" /\ phase' = "tech") =>
            LET s == my_states(pos')
                added == /\ Appended(rows, rows')
                         /\ rows'[Len(rows')].frame = my_frames(pos')
            IN  /\ s \in {199, 200, 201}
                /\ s = 199 =>
                      added /\ rows'[Len(rows')].option = "tech in place"
                /\ s \in {200, 201} =>
                      IF OppRowsAt(my_frames(pos')) = {} THEN rows' = rows
                      ELSE /\ added
                           /\ rows'[Len(rows')].option
                                 \in {"tech toward", "tech away"}]_vars

\* C13, the case: the match is done with a tech in place, a tech roll and an
\* option after a missed tech among its events.
C13_Witness ==
    /\ phase = "done"
    /\ \E n \in 1..Len(rows) : rows[n].option = "tech in place"
    /\ \E n \in 1..Len(rows) : rows[n].option \in {"tech toward", "tech away"}
    /\ \E n \in 1..Len(rows) :
          rows[n].option \in {"getup", "getup attack", "roll toward",
                              "roll away", "slideoff", "hit while down"}

---------------------------------------------------------------------------
(* C14: the order of the events of a match *)

\* C14: the events of the match, techs and missed techs together in the
\* order they were appended, are in non-decreasing frame order.
C14_FrameOrder ==
    \A n \in 1..(Len(rows) - 1) : rows[n].frame <= rows[n + 1].frame

---------------------------------------------------------------------------
(* C15: forward and backward give the two different labels *)

\* The label of the same call with is_forward turned around.
Opposite ==
    classify_direction(args.my_x, args.opp_x, args.facing, ~args.is_forward)

\* C15: for two different positions and any facing, the label returned and
\* the label of the call with the other is_forward are 'toward' and 'away',
\* one each.
C15_Antisymmetric ==
    (returned # "" /\ args.my_x # args.opp_x) =>
        {returned, Opposite} = {"toward", "away"}

\* C15, the case: a backward action of a player who does not face the
\* opponent has returned 'toward', and the forward action gives 'away'.
C15_Witness ==
    /\ returned = "toward"
    /\ ~args.is_forward
    /\ args.my_x # args.opp_x
    /\ Opposite = "away"
    /\ (args.opp_x - args.my_x) * args.facing < 0

---------------------------------------------------------------------------
(* C16: toward exactly when facing the opponent equals is_forward *)

\* The opponent is on the side the player faces.
OppOnFacingSide == (args.opp_x - args.my_x) * args.facing > 0

\* C16: for two different positions and a facing of 1 or -1 the label is
\* 'toward' exactly when (the opponent is on the side the player faces) is
\* the same as is_forward, and 'away' otherwise.
C16_TowardIffFacingIsForward ==
    (/\ returned # ""
     /\ args.my_x # args.opp_x
     /\ args.facing \in {1, -1}) =>
        /\ returned \in {"toward", "away"}
        /\ returned = "toward" <=> (OppOnFacingSide <=> args.is_forward)

\* C16, the case: a forward action of a player who faces left, the opponent
\* to the left, has returned 'toward'.
C16_Witness ==
    /\ returned = "toward"
    /\ args.is_forward
    /\ args.facing = -1
    /\ args.opp_x < args.my_x

---------------------------------------------------------------------------
(* Vocabulary of the properties of find_edgeguards *)

\* The scan stands before row eg_i of the opponent's table.
EgAtRow == eg_pc = "scan" /\ eg_i < Len(eg_opp_df)

\* Row k and the row before it both carry a percent.
EgPctPresent(k) == k >= 1 /\ ~isnan(opp_pct(k)) /\ ~isnan(opp_pct(k - 1))

\* The opponent's percent increases on row k, off the stage.
OffstageHit(k) ==
    /\ EgPctPresent(k)
    /\ opp_pct(k) > opp_pct(k - 1)
    /\ \/ opp_x(k) > edge_x
       \/ opp_x(k) < 0 - edge_x
       \/ opp_y(k) < -1000

\* The opponent's stocks are lower on row k than on the row before.
EgStockLoss(k) ==
    /\ k >= 1
    /\ ~isnan(opp_stocks(k))
    /\ ~isnan(opp_stocks(k - 1))
    /\ opp_stocks(k) < opp_stocks(k - 1)

\* The group the row leaves behind: the open one, or the one it closed last.
GroupLeft ==
    IF current_eg' # NoGroup THEN current_eg'
    ELSE edgeguards'[Len(edgeguards')]

\* The groups closed before the row are as they were.
ClosedGroupsKept ==
    /\ Len(edgeguards') >= Len(edgeguards)
    /\ SubSeq(edgeguards', 1, Len(edgeguards)) = edgeguards

---------------------------------------------------------------------------
(* C17: the grouping of off-stage hits *)

\* The frame of the last off-stage hit before row k.
LastOffstageHit(k) ==
    LET hits == {j \in 1..(k - 1) : OffstageHit(j)}
    IN  opp_frames(CHOOSE j \in hits : \A m \in hits : m <= j)

\* Off-stage hits at frames 50, 70 and 200 give two groups, 50-70 and 200.
EgGapExample ==
    (eg_pc = "done" /\ games = GamesOf(<<32>>, EgGapScenario)) =>
        /\ Len(eg_rows) = 2
        /\ eg_rows[1].start_frame = 50 /\ eg_rows[1].end_frame = 70
        /\ eg_rows[1].metadata.hits = 2
        /\ eg_rows[2].start_frame = 200 /\ eg_rows[2].end_frame = 200
        /\ eg_rows[2].metadata.hits = 1

\* C17: an open group ends at the last off-stage hit so far; an off-stage hit
\* starts a group when none is open, joins the open group when its frame is
\* at most 60 frames after the last hit of the group, and otherwise closes
\* the open group and starts a new one; hits at 50, 70 and 200 give two
\* groups.
C17_Grouping ==
    /\ []((eg_pc = "scan" /\ current_eg # NoGroup) =>
             current_eg.end_frame = LastOffstageHit(eg_i))
    /\ [][(EgAtRow /\ OffstageHit(eg_i)) =>
            LET f == opp_frames(eg_i)
                closes == EgStockLoss(eg_i)
            IN  /\ GroupLeft.end_frame = f
                /\ current_eg' = NoGroup <=> closes
                /\ current_eg = NoGroup =>
                      /\ GroupLeft.start_frame = f
                      /\ GroupLeft.hits = 1
                      /\ ~closes => edgeguards' = edgeguards
                /\ (current_eg # NoGroup /\ f - LastOffstageHit(eg_i) <= 60) =>
                      /\ GroupLeft.start_frame = current_eg.start_frame
                      /\ GroupLeft.hits = current_eg.hits + 1
                      /\ ~closes => edgeguards' = edgeguards
                /\ (current_eg # NoGroup /\ f - LastOffstageHit(eg_i) > 60) =>
                      /\ GroupLeft.start_frame = f
                      /\ GroupLeft.hits = 1
                      /\ Len(edgeguards') > Len(edgeguards)
                      /\ edgeguards'[Len(edgeguards) + 1] = current_eg
                      /\ ~closes =>
                            edgeguards' = Append(edgeguards, current_eg)]_vars
    /\ []EgGapExample

\* C17, the case: the row just scanned was an off-stage hit more than 60
\* frames after the last hit of a group of two hits; the group is closed and
\* a new one is open.
C17_Witness ==
    /\ eg_pc = "scan"
    /\ eg_i >= 4
    /\ LET k == eg_i - 1
           b == EgScan(k - 1)
       IN  /\ OffstageHit(k)
           /\ b.current_eg # NoGroup
           /\ b.current_eg.hits = 2
           /\ opp_frames(k) - b.current_eg.end_frame > 60
           /\ edgeguards = Append(b.edgeguards, b.current_eg)
           /\ current_eg # NoGroup
           /\ current_eg.start_frame = opp_frames(k)

---------------------------------------------------------------------------
(* C18: a stock lost by the opponent *)

\* The group is closed as a kill at the frame of the row.
EgClosedAsKill(g) ==
    /\ edgeguards' = Append(edgeguards, [g EXCEPT !.end_frame = opp_frames(eg_i),
                                                  !.killed = TRUE])
    /\ current_eg' = NoGroup

---------------------------------------------------------------------------
(* C19: a match on a stage without geometry *)

\* Match g is on a stage that has an entry in STAGE_GEOMETRY.
HasGeometry(g) == games[g].stage_id \in {2, 3, 8, 28, 31, 32}

\* The clip rows of match g.
RowsOfGame(g) == SelectSeq(eg_rows, LAMBDA r : r.filepath = g)

\* C19: the step that takes up a match on a stage without geometry appends
\* nothing and goes on to the next match; when the call has returned, every
\* match was taken up, a match without geometry has no row, and a match
\* with geometry has the rows of the groups of its table.
C19_NoGeometrySkipped ==
    /\ [][(/\ eg_pc = "games"
           /\ game < Len(games)
           /\ ~HasGeometry(game + 1)) =>
             /\ eg_rows' = eg_rows
             /\ game' = game + 1
             /\ eg_pc' = "games"]_vars
    /\ [][(eg_pc = "scan" /\ eg_pc' = "games") =>
             /\ HasGeometry(game)
             /\ RowsOfGame(game) = <<>>
             /\ eg_rows' = eg_rows \o
                   [n \in 1..Len(edgeguards') |->
                       ClipRow(games[game], edgeguards'[n])]
             /\ edgeguards' = AllGroups(EgScan(Len(eg_opp_df) - 1))]_vars
    /\ [](eg_pc = "done" =>
             /\ game = Len(games)
             /\ \A g \in 1..Len(games) :
                   IF HasGeometry(g)
                   THEN Len(RowsOfGame(g)) = Len(edgeguards)
                   ELSE RowsOfGame(g) = <<>>)

\* C19, the case: the call has returned for a match on a stage without
\* geometry followed by a match with geometry, which has rows.
C19_Witness ==
    /\ eg_pc = "done"
    /\ Len(games) = 2
    /\ ~HasGeometry(1)
    /\ HasGeometry(2)
    /\ RowsOfGame(2) # <<>>
    /\ RowsOfGame(1) = <<>>

---------------------------------------------------------------------------
(* C20: the move that ended a neutral window *)

\* The name of the move a table holds at frame f, 'unknown' for none.
OpenerAt(df, f) ==
    LET v == df[f2i(df, f)].last_attack_landed
    IN  IF isnan(v) \/ v = 0 THEN "unknown" ELSE move_name(v)

\* C20: the row appended for the window that ends on a frame carries the
\* move of the opener at that frame: the player's last_attack_landed when
\* the outcome is 'won', the opponent's when the outcome is 'lost'.
C20_OpenerMove ==
    [][(nt_pc = "loop" /\ nt_k' = nt_k + 1 /\ Len(nt_rows') > Len(nt_rows)) =>
          LET r == nt_rows'[Len(nt_rows')]
              f == frame_set[nt_k + 1]
          IN  /\ r.outcome = "won" => r.opener_move = OpenerAt(nt_my_df, f)
              /\ r.outcome = "lost" => r.opener_move = OpenerAt(nt_opp_df, f)
      ]_vars

---------------------------------------------------------------------------
(* C21: which windows of neutral produce an opening *)

\* The state a table holds on the k-th common frame.
NtStateAt(df, k) == df[f2i(df, frame_set[k])].state

\* Both players are free to act on the k-th common frame.
NtBothFree(k) ==
    /\ ~isnan(NtStateAt(nt_my_df, k))
    /\ ~isnan(NtStateAt(nt_opp_df, k))
    /\ NtStateAt(nt_my_df, k) \notin NON_NEUTRAL_STATES
    /\ NtStateAt(nt_opp_df, k) \notin NON_NEUTRAL_STATES

\* The first common frame of the run of free frames that holds the k-th.
NtWindowStart(k) ==
    frame_set[CHOOSE j \in 1..k :
                 /\ \A n \in j..k : NtBothFree(n)
                 /\ \A m \in 1..(j - 1) : \E n \in m..k : ~NtBothFree(n)]

\* A window of neutral that is long enough ends on the k-th common frame.
NtWindowEnds(k) ==
    /\ k > 1
    /\ NtBothFree(k - 1)
    /\ ~NtBothFree(k)
    /\ frame_set[k] - NtWindowStart(k - 1) >= min_neutral_frames

NtMyDamage(k) == NtStateAt(nt_my_df, k) \in NT_DAMAGE_STATES
NtOppDamage(k) == NtStateAt(nt_opp_df, k) \in NT_DAMAGE_STATES

\* C21: the iteration on a common frame appends a row exactly when a long
\* enough window ends there with one side, and only one, in a damage state:
\* 'lost' when it is the player, 'won' when it is the opponent, with the
\* length of the window. In every other case nothing is appended, and the
\* marker is reset whenever a window ends.
C21_OneSideInDamage ==
    [][(nt_pc = "loop" /\ nt_k' = nt_k + 1) =>
          LET k == nt_k + 1
          IN  /\ IF NtWindowEnds(k) /\ (NtMyDamage(k) # NtOppDamage(k))
                 THEN /\ Len(nt_rows') = Len(nt_rows) + 1
                      /\ SubSeq(nt_rows', 1, Len(nt_rows)) = nt_rows
                      /\ nt_rows'[Len(nt_rows')].outcome =
                            IF NtMyDamage(k) THEN "lost" ELSE "won"
                      /\ nt_rows'[Len(nt_rows')].neutral_frames =
                            frame_set[k] - NtWindowStart(k - 1)
                 ELSE nt_rows' = nt_rows
              /\ NtWindowEnds(k) => neutral_start_frame' = NoFrame
      ]_vars

\* The loop is done with an opening of each outcome found, one of them from a
\* window of the default length.
C21_Witness ==
    /\ nt_pc = "done"
    /\ min_neutral_frames = 15
    /\ \E r \in 1..Len(nt_rows) : nt_rows[r].outcome = "lost"

---------------------------------------------------------------------------
(* C22: one record per trigger occurrence *)

\* Row k (from 1) of the reactor is a hit attributed to the trigger move: the
\* percent went up from the row before and the actor's last_attack_landed at
\* the frame is the trigger move.
CeTriggerHit(k) ==
    /\ k > 1
    /\ ~isnan(ce_reactor_df[k].percent)
    /\ ~isnan(ce_reactor_df[k - 1].percent)
    /\ ce_reactor_df[k].percent > ce_reactor_df[k - 1].percent
    /\ \E a \in 1..Len(ce_actor_df) :
          /\ ce_actor_df[a].frame = ce_reactor_df[k].frame
          /\ ce_actor_df[a].last_attack_landed = trigger_move_id

\* On row k (from 1) the actor enters the trigger states.
CeTriggerEntry(k) ==
    /\ k > 1
    /\ ce_actor_df[k].state \in trigger_states
    /\ ce_actor_df[k - 1].state \notin trigger_states

\* The frames of the trigger occurrences of the match, in the order of the
\* rows.
CeTriggerFrames ==
    IF trigger_type = "move"
    THEN LET ks == SelectSeq([k \in 1..Len(ce_reactor_df) |-> k], CeTriggerHit)
         IN  [n \in 1..Len(ks) |-> ce_reactor_df[ks[n]].frame]
    ELSE LET ks == SelectSeq([k \in 1..Len(ce_actor_df) |-> k], CeTriggerEntry)
         IN  [n \in 1..Len(ks) |-> ce_actor_df[ks[n]].frame]

\* C22: without a min_opp_pct filter the result holds one record for each
\* trigger occurrence, in their order, be the trigger a move or a set of
\* states; every record carries a boolean converted, which is true on every
\* record when outcome is None.
C22_OneRecordPerTrigger ==
    (ce_pc = "done" /\ min_opp_pct = NoMinPct) =>
        /\ Len(ce_rows) = Len(CeTriggerFrames)
        /\ \A n \in 1..Len(ce_rows) :
              /\ ce_rows[n].trigger_frame = CeTriggerFrames[n]
              /\ ce_rows[n].converted \in BOOLEAN
              /\ ce_outcome = None => ce_rows[n].converted

\* Two hits of the trigger move on frames that follow each other, no filter
\* and no outcome asked for: two records.
C22_Witness ==
    /\ ce_pc = "done"
    /\ min_opp_pct = NoMinPct
    /\ ce_outcome = None
    /\ trigger_type = "move"
    /\ \E n \in 1..(Len(ce_rows) - 1) :
          ce_rows[n + 1].trigger_frame = ce_rows[n].trigger_frame + 1

\* The same for a state trigger: the actor enters the trigger states twice.
C22_WitnessStates ==
    /\ ce_pc = "done"
    /\ ce_outcome = None
    /\ trigger_type = "state"
    /\ Len(ce_rows) = 2

---------------------------------------------------------------------------
(* C23: a trigger is converted by a stock the reactor loses in the window *)

\* On row k (from 1) the reactor has fewer stocks than on the last row before
\* it that holds a stock count.
CeStockLostAt(k) ==
    /\ ~isnan(ce_reactor_df[k].stocks)
    /\ \E p \in 1..(k - 1) :
          /\ ~isnan(ce_reactor_df[p].stocks)
          /\ \A q \in (p + 1)..(k - 1) : isnan(ce_reactor_df[q].stocks)
          /\ ce_reactor_df[k].stocks < ce_reactor_df[p].stocks

\* The frames of the window after trigger_frame on which the reactor loses a
\* stock.
CeLossFrames(tf) ==
    {ce_reactor_df[k].frame : k \in
        {j \in 1..Len(ce_reactor_df) :
            /\ CeStockLostAt(j)
            /\ tf < ce_reactor_df[j].frame
            /\ ce_reactor_df[j].frame <= tf + window_frames}}

\* C23: with outcome 'kill' a record is converted exactly when the reactor
\* loses a stock on a frame f with trigger_frame < f <= trigger_frame +
\* window_frames, and outcome_frame is then the first such frame.
C23_KillInWindow ==
    (ce_pc = "done" /\ ce_outcome = "kill") =>
        \A n \in 1..Len(ce_rows) :
            LET r == ce_rows[n]
                lost == CeLossFrames(r.trigger_frame)
            IN  /\ r.converted <=> lost # {}
                /\ r.converted =>
                      /\ r.outcome_frame \in lost
                      /\ \A f \in lost : r.outcome_frame <= f

---------------------------------------------------------------------------
(* C24: the move of a kill is the attacker's *)

\* What the attacker's table holds as last_attack_landed at frame f: NaN
\* when it has no row there or the value is missing.
KillAttackerMoveAt(f) ==
    IF \E k \in 1..Len(q_attacker_df) : q_attacker_df[k].frame = f
    THEN q_attacker_df[CHOOSE k \in 1..Len(q_attacker_df) :
                          q_attacker_df[k].frame = f].last_attack_landed
    ELSE NaN

\* C24: when attacker_df is given, the killing_move_id of every death is the
\* attacker's last_attack_landed at the frame of the death (none when the
\* attacker's table has none there), never the victim's own.
C24_AttackerMove ==
    (q_pc = "done" /\ q_attacker_given) =>
        \A n \in 1..Len(q_rows) :
            q_rows[n].killing_move_id = KillAttackerMoveAt(q_rows[n].frame)

---------------------------------------------------------------------------
(* C25, C26: the entries and the exits of a set of states *)

\* The state of row k (from 1) is in the set looked for.
QueryInSet(k) == q_df[k].state \in q_states

\* The maximal runs <<a, b>> of rows whose states are in the set.
QueryRuns ==
    {ab \in (1..Len(q_df)) \X (1..Len(q_df)) :
        /\ ab[1] <= ab[2]
        /\ \A k \in ab[1]..ab[2] : QueryInSet(k)
        /\ ab[1] > 1 => ~QueryInSet(ab[1] - 1)
        /\ ab[2] < Len(q_df) => ~QueryInSet(ab[2] + 1)}

\* rs holds the rows `at` of the table, one each, in increasing order.
QueryHoldsRows(rs, at) ==
    /\ Len(rs) = Cardinality(at)
    /\ \A n \in 1..Len(rs) :
          /\ rs[n].index + 1 \in at
          /\ rs[n].frame = q_df[rs[n].index + 1].frame
          /\ rs[n].state = q_df[rs[n].index + 1].state
          /\ rs[n].state \in q_states
    /\ \A n \in 1..(Len(rs) - 1) : rs[n].index < rs[n + 1].index

\* C25: find_state_entries returns exactly the rows whose state is in the
\* set and whose preceding row's state is not (the first row counts when its
\* state is in the set): every returned row has its state in the set, and
\* there is one per maximal run of rows in the set, its first row.
C25_Entries ==
    q_pc \in {"entries", "done"} =>
        /\ QueryHoldsRows(q_entries,
              {k \in 1..Len(q_df) :
                  QueryInSet(k) /\ (k = 1 \/ ~QueryInSet(k - 1))})
        /\ QueryHoldsRows(q_entries, {ab[1] : ab \in QueryRuns})

\* The table starts in the set, leaves it and enters it again: two entries,
\* the first row one of them.
C25_Witness ==
    /\ q_pc = "entries"
    /\ Len(q_entries) = 2
    /\ q_entries[1].index = 0

\* C26: find_state_exits returns exactly the last row of each maximal run of
\* rows in the set (the last row of the table counts when its state is in
\* the set), every returned row has its state in the set, and there are as
\* many exits as find_state_entries finds entries.
C26_Exits ==
    /\ q_pc \in {"exits", "done"} =>
          QueryHoldsRows(q_exits, {ab[2] : ab \in QueryRuns})
    /\ q_pc = "done" => Len(q_exits) = Len(q_entries)

\* Both functions have run on a table that ends in the set, with two runs of
\* which one is longer than a row.
C26_Witness ==
    /\ q_pc = "done"
    /\ Len(q_exits) = 2
    /\ q_exits[2].index = Len(q_df) - 1
    /\ \E n \in 1..2 : q_exits[n].index > q_entries[n].index

---------------------------------------------------------------------------
(* C27: the first action after a trigger, within the window *)

\* Row k (from 1) is an action for the trigger on row idx (from 0): a later
\* row in a target state, at most window_frames after the trigger frame.
ActionFor(idx, k) ==
    /\ k > idx + 1
    /\ q_df[k].state \in q_states
    /\ q_df[k].frame - q_df[idx + 1].frame <= q_window_frames

\* The triggers that have an action, in their order.
ActionTriggersMet ==
    SelectSeq(q_trigger_indices,
              LAMBDA idx : \E k \in 1..Len(q_df) : ActionFor(idx, k))

\* The first action of the trigger on row idx.
ActionFirst(idx) ==
    CHOOSE k \in 1..Len(q_df) :
        /\ ActionFor(idx, k)
        /\ \A m \in 1..Len(q_df) : ActionFor(idx, m) => k <= m

\* C27: the result holds, in the order of the triggers, one row for each
\* trigger that has an action and none for the others: the first row after
\* the trigger row in a target state and at most window_frames after the
\* trigger frame. Every trigger is taken up and the call returns.
C27_FirstActionInWindow ==
    /\ q_pc = "done" =>
          /\ q_k = Len(q_trigger_indices)
          /\ Len(q_rows) = Len(ActionTriggersMet)
          /\ \A n \in 1..Len(q_rows) :
                LET idx == ActionTriggersMet[n]
                    k == ActionFirst(idx)
                IN  /\ q_rows[n].trigger_frame = q_df[idx + 1].frame
                    /\ q_rows[n].action_frame = q_df[k].frame
                    /\ q_rows[n].state = q_df[k].state
                    /\ q_rows[n].frames_after =
                          q_df[k].frame - q_df[idx + 1].frame
    /\ Len(q_rows) <= q_k

\* Two triggers, of which the first has a tech in place exactly two frames
\* on, and the second only one three frames on, outside the window of two.
C27_Witness ==
    /\ q_pc = "done"
    /\ q_window_frames = 2
    /\ Len(q_trigger_indices) = 2
    /\ Len(q_rows) = 1
    /\ q_rows[1].frames_after = 2
    /\ q_rows[1].trigger_frame = q_df[q_trigger_indices[1] + 1].frame
    /\ \E k \in 1..Len(q_df) :
          /\ k > q_trigger_indices[2] + 1
          /\ q_df[k].state \in q_states
          /\ q_df[k].frame - q_df[q_trigger_indices[2] + 1].frame = 3

---------------------------------------------------------------------------
(* C28: detect_combos is a pure function *)

---------------------------------------------------------------------------
(* C29: the strictness presets *)

\* The tolerance the levels stand for: 0, 45, 90, 180 for the levels 0 to
\* 3, and 45 for any other level.
ClaimedGap(s) ==
    CASE s = 0 -> 0
      [] s = 1 -> 45
      [] s = 2 -> 90
      [] s = 3 -> 180
      [] OTHER -> 45

\* The rows rs without the column strictness_level.
WithoutLevel(rs) ==
    [k \in 1..Len(rs) |->
        [f \in DOMAIN rs[k] \ {"strictness_level"} |-> rs[k][f]]]

\* C29: the table detect_combos_by_strictness returns holds, column for
\* column, the rows of detect_combos on the same timelines with gap_frames
\* 0, 45, 90, 180 for the levels 0, 1, 2, 3 and 45 for any other level, in
\* the same order; the one thing added is the column strictness_level, the
\* level on every row.
C29_PresetIsGap ==
    pc = "returned" =>
        /\ WithoutLevel(combos) = detect_combos(ClaimedGap(strictness))
        /\ \A k \in 1..Len(combos) : combos[k].strictness_level = strictness

\* A level without a preset has returned combos that a tolerance of 0 or of
\* 90 would not give.
C29_Witness ==
    /\ pc = "returned"
    /\ strictness \notin DOMAIN STRICTNESS_PRESETS
    /\ combos # <<>>
    /\ WithoutLevel(combos) # detect_combos(0)
    /\ WithoutLevel(combos) # detect_combos(90)

---------------------------------------------------------------------------
(* C30: missing data *)

\* The step changes no local of the scan.
LocalsKept ==
    /\ combos' = combos
    /\ in_combo' = in_combo
    /\ start_frame' = start_frame
    /\ start_pct' = start_pct
    /\ last_hit_frame' = last_hit_frame
    /\ num_hits' = num_hits
    /\ started_by' = started_by
    /\ ended_by' = ended_by
    /\ current_pct' = current_pct
    /\ hit_sequence' = hit_sequence

\* A row without a percent, and the row right after it, change nothing: an
\* open combo keeps every field and stays open, no combo is emitted or
\* changed.
MissingPercentSkipped == (AtRow /\ ~PctPresent(i)) => LocalsKept

\* The stocks of row k cannot be compared with those of the row before.
StocksMissing(k) == k >= 1 /\ (isnan(stocks(k)) \/ isnan(stocks(k - 1)))

\* C30 as claimed: a row without a percent and the row after it change
\* nothing, and a row without a stocks value leaves the open combo open and
\* emits nothing.
C30_MissingData_AsClaimed ==
    [][/\ MissingPercentSkipped
       /\ (AtRow /\ in_combo /\ isnan(stocks(i))) =>
              (in_combo' /\ combos' = combos)]_vars

\* C30 as amended: a row without a percent and the row after it change
\* nothing; a row whose stocks, or those of the row before, are missing is
\* a row without a stock loss: it marks no combo killed, neither an open nor
\* a closed one, and the gap rule applies to it as to any row, so that it
\* closes the open combo only when it is no hit and more than gap_frames
\* after the last hit.
C30_MissingData ==
    [][/\ MissingPercentSkipped
       /\ (AtRow /\ PctPresent(i) /\ StocksMissing(i)) =>
              /\ GapRule(~IsHit(i))
              /\ SubSeq(combos', 1, Len(combos)) = combos
              /\ \A n \in (Len(combos) + 1)..Len(combos') :
                    ~combos'[n].killed
              /\ (in_combo /\ ~in_combo') =>
                    (~IsHit(i) /\ frames(i) - last_hit_frame > gap_frames)]_vars

\* C30, the case: the replay holds no data for frame 164, on which the
\* defender dies; the scan has passed that row and the row after it, which
\* carries the lower stocks, and the combo of two hits is open as before.
C30_Witness ==
    /\ pc = "loop"
    /\ defender_df = MissingDeathScenario.defender
    /\ gap_frames = 90
    /\ i = 6
    /\ isnan(pct(4)) /\ isnan(stocks(4))
    /\ stocks(5) < stocks(3)
    /\ in_combo
    /\ num_hits = 2
    /\ last_hit_frame = 163
    /\ combos = <<>>
    /\ Before(4) = Locals

---------------------------------------------------------------------------
(* C31: the percent of a missed tech is the percent at the bounce *)

\* C31: an option the look-ahead after a bounce classifies carries the
\* percent of the row of the bounce, and the frame of the later row on which
\* it was resolved.
C31_PercentAtBounce ==
    [][(phase = "missed" /\ Len(rows') > Len(rows)) =>
          /\ Len(rows') = Len(rows) + 1
          /\ bound_entries(pos')
          /\ rows'[Len(rows')].percent = percents(pos')
          /\ \E j \in RowsAfter(pos') :
                /\ rows'[Len(rows')].frame = my_frames(j)
                /\ \A k \in (pos' + 1)..(j - 1) :
                      my_states(k) \in MISSED_BOUND \cup MISSED_WAIT]_vars

\* C31, the case: the player bounced, lay on the ground and was hit there
\* two rows later at a higher percent; the event carries the frame of the
\* hit and the percent of the bounce.
C31_Witness ==
    /\ phase = "missed"
    /\ pos >= 0
    /\ pos + 2 < Len(my_df)
    /\ rows # <<>>
    /\ LET last == rows[Len(rows)]
       IN  /\ last.option = "hit while down"
           /\ last.percent = percents(pos)
           /\ last.frame = my_frames(pos + 2)
           /\ percents(pos + 2) > percents(pos)

---------------------------------------------------------------------------
(* C39: a knockdown on a frame the opponent has no row for *)

\* The opponent's table has no row on the frame of row k.
Unseen(k) == OppRowsAt(my_frames(k)) = {}

\* Row k shows an option that is labelled by where the opponent is.
Directional(k) ==
    my_states(k) \in {TECH_ROLL_F, TECH_ROLL_B} \cup DOWN_ROLL_F \cup DOWN_ROLL_B

\* The option of a row that is not labelled by where the opponent is.
PlainOption(k) ==
    LET s == my_states(k)
    IN  CASE s = TECH_IN_PLACE -> "tech in place"
          [] s \in GETUP -> "getup"
          [] s \in GETUP_ATTACK -> "getup attack"
          [] s \in HIT_DOWN \cup DAMAGE_STATES -> "hit while down"
          [] s \in FALL_STATES -> "slideoff"
          [] OTHER -> None

\* The rows of the look-ahead after the bounce on row p that are neither a
\* bounce nor lying.
Resolving(p) ==
    {j \in RowsAfter(p) :
        j < p + LOOKAHEAD /\ my_states(j) \notin MISSED_BOUND \cup MISSED_WAIT}

\* What the knockdown resolved on row k gives when the opponent has no row
\* on the frame of row k: nothing for a directional option, the event of
\* the option otherwise (`emits`: the row shows an option of the loop).
UnseenOutcome(k, emits) ==
    IF Directional(k) THEN rows' = rows
    ELSE IF emits
         THEN /\ Appended(rows, rows')
              /\ rows'[Len(rows')].option = PlainOption(k)
              /\ rows'[Len(rows')].frame = my_frames(k)
         ELSE rows' = rows

\* C39: the step that handles a tech entry on a frame the opponent has no
\* row for appends nothing for a tech roll (200, 201) and 'tech in place'
\* for 199; the step that handles a bounce whose first row that is neither
\* a bounce nor lying is on such a frame appends nothing for a down roll
\* (188, 196, 189, 197) and the event of the option for a getup, a getup
\* attack, a hit while down or a slideoff.  Either step completes, and the
\* scan goes on to the next entry.
C39_NoOpponentRow ==
    [][/\ (phase = "tech" /\ phase' = "tech" /\ Unseen(pos')) =>
              UnseenOutcome(pos', my_states(pos') = TECH_IN_PLACE)
       /\ (phase = "missed" /\ phase' = "missed" /\ Resolving(pos') # {}) =>
              LET j == CHOOSE k \in Resolving(pos') :
                           \A n \in Resolving(pos') : k <= n
              IN  Unseen(j) => UnseenOutcome(j, Qualifying(j))]_vars

\* C39, the case: the match is done; the player bounced and rolled away on
\* a frame the opponent has no row for, which gave no event, and the tech
\* roll on the next row, where the opponent has one, gave the only event.
C39_Witness ==
    /\ phase = "done"
    /\ Len(my_df) = 4
    /\ my_states(1) \in MISSED_BOUND
    /\ my_states(2) \in DOWN_ROLL_B
    /\ Unseen(2)
    /\ my_states(3) = TECH_ROLL_F
    /\ ~Unseen(3)
    /\ Len(rows) = 1
    /\ rows[1].frame = my_frames(3)

---------------------------------------------------------------------------
(* C40: what gap_frames means on consecutive frames *)

\* The rows a < b are two hits with no hit between them.
ConsecutiveHits(a, b) ==
    /\ a < b
    /\ IsHit(a)
    /\ IsHit(b)
    /\ \A k \in (a + 1)..(b - 1) : ~IsHit(k)

\* The frames f and g are hits of one combo of the result.
SameCombo(f, g) ==
    \E n \in 1..Len(combos) :
        LET hf == {combos[n].hit_frames[k] :
                      k \in 1..Len(combos[n].hit_frames)}
        IN  f \in hf /\ g \in hf

\* C40: on consecutive frames without missing values or a stock loss, two
\* hits with no hit between them are in the same combo of the result
\* exactly when they are at most gap_frames + 1 frames apart; with
\* gap_frames = 0 the hits of a combo are on directly consecutive frames.
C40_GapOnConsecutiveFrames ==
    pc = "done" =>
        /\ \A a, b \in 1..(Len(defender_df) - 1) :
              ConsecutiveHits(a, b) =>
                  (SameCombo(frames(a), frames(b))
                      <=> frames(b) - frames(a) <= gap_frames + 1)
        /\ gap_frames = 0 =>
              \A n \in 1..Len(combos) :
                  \A k \in 2..Len(combos[n].hit_frames) :
                      combos[n].hit_frames[k] =
                          combos[n].hit_frames[k - 1] + 1

\* C40, the case: with room for one idle frame, a hit two frames after the
\* last joined its combo and a hit three frames after the last did not.
C40_Witness ==
    /\ pc = "done"
    /\ gap_frames = 1
    /\ \E a, b \in 1..(Len(defender_df) - 1) :
          /\ ConsecutiveHits(a, b)
          /\ frames(b) - frames(a) = 2
          /\ SameCombo(frames(a), frames(b))
    /\ \E a, b \in 1..(Len(defender_df) - 1) :
          /\ ConsecutiveHits(a, b)
          /\ frames(b) - frames(a) = 3
          /\ ~SameCombo(frames(a), frames(b))

---------------------------------------------------------------------------
(* C36: the groups of a match are well formed, in order and apart *)

\* The groups gs have a hit each, do not end before they start, and each
\* ends strictly before the next starts.
OrderedGroups(gs) ==
    /\ \A n \in 1..Len(gs) :
          gs[n].hits >= 1 /\ gs[n].start_frame <= gs[n].end_frame
    /\ \A n \in 1..(Len(gs) - 1) :
          /\ gs[n].start_frame < gs[n + 1].start_frame
          /\ gs[n].end_frame < gs[n + 1].start_frame

\* C36: every group emitted has hits >= 1 and start_frame <= end_frame,
\* and the groups of one match are emitted in increasing order of
\* start_frame, each ending strictly before the next starts; the same holds
\* of the groups closed so far while the match is scanned, and of the open
\* group after them.
C36_GroupsOrdered ==
    /\ \A n \in 1..Len(eg_rows) :
          /\ eg_rows[n].metadata.hits >= 1
          /\ eg_rows[n].start_frame <= eg_rows[n].end_frame
    /\ \A n \in 1..(Len(eg_rows) - 1) :
          eg_rows[n].filepath = eg_rows[n + 1].filepath =>
              /\ eg_rows[n].start_frame < eg_rows[n + 1].start_frame
              /\ eg_rows[n].end_frame < eg_rows[n + 1].start_frame
    /\ OrderedGroups(IF current_eg = NoGroup THEN edgeguards
                     ELSE Append(edgeguards, current_eg))

\* C36, the case: the call has returned; a match gave a group closed as a
\* kill, its end moved to the frame of the stock loss, and a group after it.
C36_Witness ==
    /\ eg_pc = "done"
    /\ \E n \in 1..(Len(eg_rows) - 1) :
          /\ eg_rows[n].filepath = eg_rows[n + 1].filepath
          /\ eg_rows[n].metadata.killed
          /\ eg_rows[n].start_frame < eg_rows[n].end_frame
          /\ eg_rows[n].end_frame < eg_rows[n + 1].start_frame

---------------------------------------------------------------------------
(* C35: the marker of the start of neutral *)

\* What the marker holds after the first k common frames: nothing when
\* either player is not free on the k-th, and otherwise the first common
\* frame of the run of free frames that holds the k-th.
NtMarkerAfter(k) ==
    IF k = 0 THEN NoFrame
    ELSE IF NtBothFree(k) THEN NtWindowStart(k)
    ELSE NoFrame

\* C35: after every common frame the marker is the first common frame of
\* the run of frames on which both players are free, and null when either
\* player is in a non-neutral state on the frame; every opening has
\* neutral_frames >= min_neutral_frames; and when an opening is appended on
\* a common frame, its window starts on a common frame and both players are
\* free on every common frame from there up to, not including, that frame.
C35_WindowTracking ==
    /\ [](neutral_start_frame = NtMarkerAfter(nt_k))
    /\ [](\A n \in 1..Len(nt_rows) :
             nt_rows[n].neutral_frames >= min_neutral_frames)
    /\ [][Len(nt_rows') > Len(nt_rows) =>
            LET k == nt_k + 1
                start == frame_set[k] - nt_rows'[Len(nt_rows')].neutral_frames
            IN  /\ ~NtBothFree(k)
                /\ start = neutral_start_frame
                /\ \E j \in 1..(k - 1) : frame_set[j] = start
                /\ \A j \in 1..(k - 1) :
                      frame_set[j] >= start => NtBothFree(j)]_vars

\* C35, the case: the marker was reset on the first common frame, set on
\* the second, and the third ended the window with an opening as long as
\* the distance of the second and the third.
C35_Witness ==
    /\ nt_pc = "done"
    /\ Len(frame_set) = 3
    /\ ~NtBothFree(1)
    /\ NtBothFree(2)
    /\ Len(nt_rows) = 1
    /\ nt_rows[1].neutral_frames = frame_set[3] - frame_set[2]
    /\ neutral_start_frame = NoFrame

---------------------------------------------------------------------------
(* C32: the air-dodge window of detect_wavedashes                           *)

\* Row j enters jump startup.
JsEntry(j) == wd_s(j) = JUMPSQUAT /\ wd_s(j - 1) # JUMPSQUAT

\* The row of the table with frame f.
WdIndex(f) == CHOOSE k \in 0..(wd_n - 1) : frames_arr(k) = f

\* The first row after j that is not in jump startup (the end of the table
\* if there is none).
OutOfJumpsquat(j) ==
    CHOOSE k \in (j + 1)..wd_n :
        /\ k = wd_n \/ wd_s(k) # JUMPSQUAT
        /\ \A m \in (j + 1)..(k - 1) : wd_s(m) = JUMPSQUAT

\* An air dodge on row j of the six rows from row fa, no grounded row
\* before it in them.
DodgeInWindow(fa, j) ==
    /\ j \in fa..(fa + 5)
    /\ j < wd_n
    /\ wd_s(j) = AIRDODGE
    /\ \A k \in fa..(j - 1) : wd_s(k) \notin GROUNDED

\* The event e has its air dodge in the window from the first airborne row
\* and counts its late frames from that row.
DodgeOf(e) ==
    LET js == WdIndex(e.frame)
        fa == first_air_of(js)
    IN  /\ OutOfJumpsquat(js) - js <= 15 => fa = OutOfJumpsquat(js)
        /\ \E j \in fa..(fa + 5) :
             /\ DodgeInWindow(fa, j)
             /\ WdIndex(e.end_frame) > j
             /\ e.late_frames = j - fa
        /\ e.late_frames \in 0..5
        /\ e.is_late <=> e.late_frames > 0

---------------------------------------------------------------------------
(* C33: the landing window of detect_wavedashes                             *)

\* The air dodge accepted for the jump startup entered on row js_: the row
\* of the window from the first airborne row, NoIndex if there is none.
AcceptedDodge(js_) ==
    IF \E j \in 0..(wd_n - 1) : DodgeInWindow(first_air_of(js_), j)
    THEN CHOOSE j \in 0..(wd_n - 1) : DodgeInWindow(first_air_of(js_), j)
    ELSE NoIndex

\* Row k is the first grounded row after the air dodge on row j, and one of
\* the w rows after it.
LandsWithin(j, k, w) ==
    /\ k \in (j + 1)..(j + w)
    /\ k < wd_n
    /\ wd_s(k) \in GROUNDED
    /\ \A m \in (j + 1)..(k - 1) : wd_s(m) \notin GROUNDED

\* C33: after an accepted air dodge the first grounded row is searched on
\* the 20 rows after the air dodge.  A landing on any of them, the 20th
\* included, is found and used: the scan goes on behind it, and with a
\* ground speed of 0.5 or more the event that ends on it is appended.  Only
\* when none of the 20 rows is grounded is the candidate abandoned: no row,
\* and the scan goes on behind the air dodge.
C33_LandingWithinTwenty ==
    [][(wd_i' # wd_i /\ JsEntry(wd_i) /\ AcceptedDodge(wd_i) # NoIndex) =>
          LET j == AcceptedDodge(wd_i)
          IN  IF \E k \in 0..(wd_n - 1) : LandsWithin(j, k, 20)
              THEN \E k \in 0..(wd_n - 1) :
                     /\ LandsWithin(j, k, 20)
                     /\ wd_i' = k + 1
                     /\ abs(velx_arr(k)) >= MIN_SLIDE_VEL =>
                          /\ Len(wd_rows') = Len(wd_rows) + 1
                          /\ wd_rows'[Len(wd_rows')].end_frame = frames_arr(k)
              ELSE wd_rows' = wd_rows /\ wd_i' = j + 1]_vars

---------------------------------------------------------------------------
(* C34: the velocity classes of detect_wavedashes                           *)

\* The reported slide_vel (thousandths) is at least v (ten-thousandths).
SlideAtLeast(e, v) == 10 * e.slide_vel >= v

\* C34: a candidate that lands with a ground speed below 0.5 is discarded,
\* so every event has slide_vel >= 0.5; its angle_cat is "flat" exactly when
\* slide_vel >= 1.5, "moderate" exactly when 0.8 <= slide_vel < 1.5, and
\* "steep" exactly when 0.5 <= slide_vel < 0.8.
C34_VelocityClasses ==
    \A k \in 1..Len(wd_rows) :
        LET e == wd_rows[k]
        IN  /\ SlideAtLeast(e, MIN_SLIDE_VEL)
            /\ e.angle_cat = "flat" <=> SlideAtLeast(e, 15000)
            /\ e.angle_cat = "moderate" <=>
                 SlideAtLeast(e, 8000) /\ ~SlideAtLeast(e, 15000)
            /\ e.angle_cat = "steep" <=>
                 SlideAtLeast(e, MIN_SLIDE_VEL) /\ ~SlideAtLeast(e, 8000)

\* The same classes, read on the landing velocity before it is rounded.
UnroundedClasses ==
    \A k \in 1..Len(wd_rows) :
        LET e == wd_rows[k]
            v == abs(velx_arr(WdIndex(e.end_frame)))
        IN  /\ v >= MIN_SLIDE_VEL
            /\ e.angle_cat = "flat" <=> v >= 15000
            /\ e.angle_cat = "moderate" <=> v >= 8000 /\ v < 15000
            /\ e.angle_cat = "steep" <=> v >= MIN_SLIDE_VEL /\ v < 8000

---------------------------------------------------------------------------
(* C37: detect_wavedashes terminates                                        *)

\* The branches of an iteration of the main scan.
WdKinds == {"advance", "no airdodge", "no landing", "stall", "event"}

\* The iteration the scan is about to make goes on with a larger index.
ScanAdvances ==
    (wd_pc = "scan" /\ wd_i < wd_n) =>
        /\ wd_body(wd_rows, wd_i).kind \in WdKinds
        /\ wd_body(wd_rows, wd_i).next > wd_i

\* C37: detect_wavedashes terminates on every finite timeline.  Whatever
\* branch an iteration of the main scan takes (plain advance, abandoned
\* jump, missing landing, discarded stall, emitted event), the scan goes on
\* with a strictly larger index, also when the jump startup runs to the end
\* of the timeline or beyond the cap of 15 rows; the index never passes the
\* length of the timeline, so the scan makes fewer iterations than the
\* timeline has rows, and returns.
C37_ScanTerminates ==
    /\ [](ScanAdvances /\ wd_i <= wd_n)
    /\ [][wd_i' # wd_i => (wd_i' > wd_i /\ wd_pc' = "scan")]_vars

\* C37 witness: the scan has returned from a timeline whose last jump
\* startup is longer than the cap and runs to the end of the timeline,
\* after a wavedash.
C37_Witness ==
    /\ wd_pc = "done"
    /\ Len(wd_rows) = 1
    /\ wd_n > 16
    /\ \A k \in (wd_n - 16)..(wd_n - 1) : wd_s(k) = JUMPSQUAT

---------------------------------------------------------------------------
(* C38: the wavedashes of one timeline do not overlap                       *)

\* The event e starts before it ends.
StartsBeforeEnd(e) == e.frame < e.end_frame

\* The event f starts after the event e has ended.
StartsAfter(e, f) == f.frame > e.end_frame

\* C38: the events returned for one timeline never overlap.  Each starts
\* (entry into jump startup) strictly before its end_frame (landing), and
\* each later event starts strictly after the end_frame of the event before
\* it: no frame is part of two wavedashes.
C38_NoOverlap ==
    /\ \A k \in 1..Len(wd_rows) : StartsBeforeEnd(wd_rows[k])
    /\ \A k \in 1..(Len(wd_rows) - 1) :
         StartsAfter(wd_rows[k], wd_rows[k + 1])

\* C38 witness: two wavedashes returned for one timeline, the second one
\* entered on the frame after the landing of the first.
C38_Witness ==
    /\ wd_pc = "done"
    /\ Len(wd_rows) = 2
    /\ wd_rows[2].frame = wd_rows[1].end_frame + 1

====
